---------------------------- MODULE Spec2Model ----------------------------
(***************************************************************************)
(* A model of the music_migrator services:                                 *)
(*   - the candidate scorer (TidalLibrary / YouTubeMusicLibrary)           *)
(*   - the duplicate-suppressing insert helpers                            *)
(*   - the Spotify -> Tidal / YouTube migrators' planner and decision loop *)
(*   - the two-account Tidal playlist synchronizer                         *)
(* Text is modelled with TLA+ strings, read character by character with    *)
(* SubSeq; None is a value of its own, distinct from "" and from 0.        *)
(***************************************************************************)
EXTENDS Integers, Sequences, FiniteSets, TLC

VARIABLES
    \* ---- scorer harness: the arguments of one score_candidate call
    sTrack, sArtist, sCand, sResult,
    \* ---- resolver harness: the provider's answer to one search and what
    \* find_best_match_with_score made of it
    rFound, rBest,
    \* ---- the resolved-video cache: the provider's fixed answers, the cache,
    \* the queries resolved through it and the provider searches issued
    provider, search_cache, resolved, searchCalls,
    \* ---- insert helpers harness: one destination collection
    dest, dest0, reqIds, reqAvoid, provCalls, addOp, addRaised,
    \* ---- get_or_create_playlist harness: the library called, the titles of the
    \* account's playlists (a playlist's handle is its position) and the calls made
    plProvider, user_playlists, got,
    \* ---- TidalPlaylistsSynchronizer: the two accounts and one run's locals
    lib, syncAvoid, syncPc, pl_a, pl_b, ids_a, ids_b, to_add_a, to_add_b,
    pending, runCalls, libAtStart, runNo, prevReturned, prevCalls,
    \* ---- what another actor added to the two playlists while a run was going on
    external,
    \* ---- TidalPlaylistsSynchronizer.run: the common titles, the ones the loop
    \* has reached, and the loop's position
    common, visited, runPc,
    \* ---- one migration (a playlist or the liked songs): configuration, the
    \* planner's position and plan, the destination, and what the run did
    mig, migPc, migErr, PASAR_CANCIONES, score_threshold, migAvoid,
    tracks, tPos, plan, searches, destExists, destPl, pending_manual_ids,
    insertCalls, migCalls, prompts, skipLog, logTried, logFailed, branches,
    \* ---- what the user typed at the manual-id prompt of each pass
    manualTyped,
    \* ---- what the environment supplied in each pass of the decision loop
    inputs,
    \* ---- the session.search requests TidalUserClient.search_tracks sent while
    \* the plan was made, and the get_or_create_playlist calls of the migration
    \* (each with the tracks resolved and the insert calls made before it)
    sessionSearches, destGets,
    \* ---- SpotifyUserClient.api_request: the client's token, the call's position,
    \* the HTTP requests the call has sent, the response at hand, whether the
    \* 401 branch found a refresh token, the exception raised, the calls made
    apiToken, apiPc, apiLog, apiResp, on401, apiErr, apiCalls

apiVars == <<apiToken, apiPc, apiLog, apiResp, on401, apiErr, apiCalls>>
cacheVars == <<provider, search_cache, resolved, searchCalls>>
scoreVars == <<sTrack, sArtist, sCand, sResult, rFound, rBest, cacheVars>>
playlistVars == <<plProvider, user_playlists, got>>
addVars   == <<dest, dest0, reqIds, reqAvoid, provCalls, addOp, addRaised, playlistVars>>
syncVars  == <<lib, syncAvoid, syncPc, pl_a, pl_b, ids_a, ids_b, to_add_a, to_add_b,
               pending, runCalls, libAtStart, runNo, prevReturned, prevCalls,
               external, common, visited, runPc>>
migVars   == <<mig, migPc, migErr, PASAR_CANCIONES, score_threshold, migAvoid,
               tracks, tPos, plan, searches, destExists, destPl, pending_manual_ids,
               insertCalls, migCalls, prompts, skipLog, logTried, logFailed, branches,
               manualTyped, inputs, sessionSearches, destGets>>
vars      == <<scoreVars, addVars, syncVars, migVars, apiVars>>

-----------------------------------------------------------------------------
(* Python values                                                           *)

\* None where a string is expected (an absent artist, a missing title).
NoneStr == "<None>"
\* None where an id is expected; 0 stays a (falsy) id of its own.
NoneId == -1

\* Python truthiness of an Optional[str] and of an Optional[int].
TruthyStr(s) == s # NoneStr /\ s # ""
TruthyId(i) == i # NoneId /\ i # 0

Min(a, b) == IF a < b THEN a ELSE b
Max(a, b) == IF a > b THEN a ELSE b

-----------------------------------------------------------------------------
(* Text: str.lower, str.strip, re.sub(r"\s+", " ", s), `in`, re.split      *)

Uppers == "ABCDEFGHIJKLMNOPQRSTUVWXYZ"
Lowers == "abcdefghijklmnopqrstuvwxyz"
\* str.lower on one character
LowerOf == [c \in {SubSeq(Uppers, i, i) : i \in 1..Len(Uppers)} |->
              LET i == CHOOSE j \in 1..Len(Uppers) : SubSeq(Uppers, j, j) = c
              IN  SubSeq(Lowers, i, i)]
LowerCharOf(c) == IF c \in DOMAIN LowerOf THEN LowerOf[c] ELSE c

\* \s of the re module, as far as the inputs use it.
IsSpace(c) == c \in {" ", "\t"}
\* [^\w]: everything that is not a letter, a digit or "_".
IsNonWord(c) == c \in {" ", "\t", "-", "(", ")", ",", "|", "/", ":", "."}

CharAt(s, i) == SubSeq(s, i, i)

RECURSIVE Lower(_)
Lower(s) == IF Len(s) = 0 THEN ""
            ELSE LowerCharOf(CharAt(s, 1)) \o Lower(SubSeq(s, 2, Len(s)))

RECURSIVE LStrip(_)
LStrip(s) == IF Len(s) > 0 /\ IsSpace(CharAt(s, 1))
             THEN LStrip(SubSeq(s, 2, Len(s))) ELSE s

RECURSIVE RStrip(_)
RStrip(s) == IF Len(s) > 0 /\ IsSpace(CharAt(s, Len(s)))
             THEN RStrip(SubSeq(s, 1, Len(s) - 1)) ELSE s

Strip(s) == RStrip(LStrip(s))

\* re.sub(r"\s+", " ", s): every maximal run of whitespace becomes one blank.
RECURSIVE CollapseWs(_)
CollapseWs(s) ==
    IF Len(s) = 0 THEN ""
    ELSE IF IsSpace(CharAt(s, 1))
         THEN " " \o CollapseWs(LStrip(s))
         ELSE CharAt(s, 1) \o CollapseWs(SubSeq(s, 2, Len(s)))

\* needle in haystack
Contains(haystack, needle) ==
    \E i \in 1..(Len(haystack) - Len(needle) + 1) :
        SubSeq(haystack, i, i + Len(needle) - 1) = needle

\* [t for t in re.split(r"[^\w]+", s) if t]: the maximal runs of word characters.
RECURSIVE Tokens(_, _)
Tokens(s, cur) ==
    IF Len(s) = 0 THEN (IF cur = "" THEN <<>> ELSE <<cur>>)
    ELSE IF IsNonWord(CharAt(s, 1))
         THEN (IF cur = "" THEN <<>> ELSE <<cur>>) \o Tokens(SubSeq(s, 2, Len(s)), "")
         ELSE Tokens(SubSeq(s, 2, Len(s)), cur \o CharAt(s, 1))

\* The local _n of score_candidate (and YouTubeMusicLibrary._norm).
Norm(s) == IF ~TruthyStr(s) THEN "" ELSE Strip(CollapseWs(Lower(s)))

\* ", ".join(names)
RECURSIVE JoinComma(_)
JoinComma(names) ==
    IF Len(names) = 0 THEN ""
    ELSE IF Len(names) = 1 THEN names[1]
    ELSE names[1] \o ", " \o JoinComma(Tail(names))

\* sum(1 for t in toks if t in title)
RECURSIVE Hits(_, _)
Hits(toks, title) ==
    IF Len(toks) = 0 THEN 0
    ELSE (IF Contains(title, toks[1]) THEN 1 ELSE 0) + Hits(Tail(toks), title)

\* the names of the artists whose name is not None, in order
RECURSIVE NamesOf(_)
NamesOf(artists) ==
    IF Len(artists) = 0 THEN <<>>
    ELSE (IF artists[1] # NoneStr THEN <<artists[1]>> ELSE <<>>) \o NamesOf(Tail(artists))

-----------------------------------------------------------------------------
(* The candidate scorer                                                    *)

TIDAL_PENAL_WORDS == <<"cover", "karaoke", "remix", "instrumental", "live">>
YT_PENAL_WORDS == <<"cover", "karaoke", "remix", "instrumental">>

\* for w in PENAL_WORDS: if w in title and (not ntrack or w not in ntrack): score -= each
RECURSIVE Penalty(_, _, _, _)
Penalty(words, title, ntrack, each) ==
    IF Len(words) = 0 THEN 0
    ELSE (IF Contains(title, words[1]) /\ (ntrack = "" \/ ~Contains(ntrack, words[1]))
          THEN each ELSE 0)
         + Penalty(Tail(words), title, ntrack, each)

\* max(0, min(100, score))
Unclamped(score) == score
Clamp(score) == Max(0, Min(100, score))

\* A scorer whose title match earns the token score only.
TidalRawScoreTokensOnly(track, artist, item) ==
    LET title   == Norm(item.title)
        channel == Norm(JoinComma(NamesOf(item.artists)))
        ntrack  == Norm(track)
        nartist == Norm(artist)
        art     == IF nartist # ""
                   THEN (IF Contains(title, nartist) THEN 20 ELSE 0)
                        + (IF Contains(channel, nartist) THEN 20 ELSE 0)
                   ELSE 0
    IN  Min(35, 7 * Hits(Tokens(ntrack, ""), title)) + art
          - Penalty(TIDAL_PENAL_WORDS, title, ntrack, 8)

\* TidalLibrary.score_candidate before the final clamp.
\* item = [id, title, artists]: artists is the sequence of the artists' names.
TidalRawScore(track, artist, item) ==
    LET title   == Norm(item.title)
        channel == Norm(JoinComma(NamesOf(item.artists)))
        ntrack  == Norm(track)
        nartist == Norm(artist)
        base    == IF ntrack # "" /\ Contains(title, ntrack) THEN 55
                   ELSE Min(35, 7 * Hits(Tokens(ntrack, ""), title))
        art     == IF nartist # ""
                   THEN (IF Contains(title, nartist) THEN 20 ELSE 0)
                        + (IF Contains(channel, nartist) THEN 20 ELSE 0)
                   ELSE 0
    IN  base + art - Penalty(TIDAL_PENAL_WORDS, title, ntrack, 8)

TidalScoreCandidate(track, artist, item) == Clamp(TidalRawScore(track, artist, item))

\* YouTubeMusicLibrary._contains
YtContains(haystack, needle) ==
    IF needle # "" /\ haystack # "" THEN Contains(haystack, needle) ELSE FALSE

\* A YouTube scorer whose channel match earns 20, as the Tidal one does.
YtRawScoreChannel20(track, artist, item) ==
    LET title   == Norm(item.title)
        channel == Norm(item.channelTitle)
        ntrack  == Norm(track)
        nartist == Norm(artist)
        base    == IF ntrack # "" /\ YtContains(title, ntrack) THEN 55
                   ELSE IF ntrack # ""
                        THEN Min(35, 7 * Hits(Tokens(ntrack, ""), title))
                        ELSE 0
        art     == IF nartist # ""
                   THEN (IF YtContains(title, nartist) THEN 20 ELSE 0)
                        + (IF YtContains(channel, nartist) THEN 20 ELSE 0)
                   ELSE 0
    IN  base + art - Penalty(YT_PENAL_WORDS, title, ntrack, 10)
          + (IF item.categoryId = "10" THEN 5 ELSE 0)

\* YouTubeMusicLibrary.score_candidate before the final clamp.
\* item = [id, title, channelTitle, categoryId] (the snippet's fields, flattened).
YtRawScore(track, artist, item) ==
    LET title   == Norm(item.title)
        channel == Norm(item.channelTitle)
        ntrack  == Norm(track)
        nartist == Norm(artist)
        base    == IF ntrack # "" /\ YtContains(title, ntrack) THEN 55
                   ELSE IF ntrack # ""
                        THEN Min(35, 7 * Hits(Tokens(ntrack, ""), title))
                        ELSE 0
        art     == IF nartist # ""
                   THEN (IF YtContains(title, nartist) THEN 20 ELSE 0)
                        + (IF YtContains(channel, nartist) THEN 15 ELSE 0)
                   ELSE 0
        bonus   == IF item.categoryId = "10" THEN 5 ELSE 0
    IN  base + art - Penalty(YT_PENAL_WORDS, title, ntrack, 10) + bonus

YtScoreCandidate(track, artist, item) == Clamp(YtRawScore(track, artist, item))



-----------------------------------------------------------------------------
(* The resolver and the planner's title clean-up                           *)

\* The first position >= i at which `needle` starts in s, 0 if there is none.
FindFrom(s, needle, i) ==
    LET hits == {k \in i..(Len(s) - Len(needle) + 1) : SubSeq(s, k, k + Len(needle) - 1) = needle}
    IN  IF hits = {} THEN 0 ELSE CHOOSE k \in hits : \A m \in hits : k <= m

\* re.sub(r"\([^()]*\)|--.*?--", "", name): scanning from the left, a "(" up to
\* the next parenthesis when that one is ")", or a "--" up to the next "--",
\* is removed; any other character is kept.
RECURSIVE StripMarkers(_)
StripMarkers(s) ==
    IF Len(s) = 0 THEN ""
    ELSE LET c      == CharAt(s, 1)
             close  == FindFrom(s, ")", 2)
             open   == FindFrom(s, "(", 2)
             dashes == IF Len(s) >= 2 /\ SubSeq(s, 1, 2) = "--" THEN FindFrom(s, "--", 3) ELSE 0
         IN  IF c = "(" /\ close # 0 /\ (open = 0 \/ close < open)
             THEN StripMarkers(SubSeq(s, close + 1, Len(s)))
             ELSE IF dashes # 0
             THEN StripMarkers(SubSeq(s, dashes + 2, Len(s)))
             ELSE c \o StripMarkers(SubSeq(s, 2, Len(s)))

\* t.get("name") or ""
OrEmpty(s) == IF TruthyStr(s) THEN s ELSE ""

\* SpotifyToTidalMigrator: name = (t.get("name") or "").strip(), then the re.sub
TidalPlanName(name) == StripMarkers(Strip(OrEmpty(name)))
\* SpotifyToYouTubeMigrator: name = t.get("name") or ""
YtPlanName(name) == OrEmpty(name)
\* artist = (artists[0] or {}).get("name") if artists else None
FirstArtist(artists) == IF Len(artists) = 0 THEN NoneStr ELSE artists[1]

\* An insertion that lets a later item overtake earlier ones of equal score.
RECURSIVE InsertByScoreUnstable(_, _)
InsertByScoreUnstable(sorted, it) ==
    IF Len(sorted) = 0 THEN <<it>>
    ELSE IF sorted[1]._score > it._score
         THEN <<sorted[1]>> \o InsertByScoreUnstable(Tail(sorted), it)
         ELSE <<it>> \o sorted

\* items.sort(key=_score, reverse=True): a stable sort, so among equal scores the
\* provider's order is kept.  scored = the items, each with its _score field.
RECURSIVE InsertByScore(_, _)
InsertByScore(sorted, it) ==
    IF Len(sorted) = 0 THEN <<it>>
    ELSE IF sorted[1]._score >= it._score
         THEN <<sorted[1]>> \o InsertByScore(Tail(sorted), it)
         ELSE <<it>> \o sorted

RECURSIVE SortByScoreDesc(_)
SortByScoreDesc(items) ==
    IF Len(items) = 0 THEN <<>>
    ELSE InsertByScore(SortByScoreDesc(SubSeq(items, 1, Len(items) - 1)), items[Len(items)])

\* TidalLibrary.search_tracks_with_scores(track=, artist=) on the provider's
\* answer `found` (the candidates client.search_tracks returned).
TidalSearchWithScores(track, artist, found) ==
    LET base_track == OrEmpty(track)
    IN  SortByScoreDesc([i \in 1..Len(found) |->
            [id |-> found[i].id, title |-> found[i].title, artists |-> found[i].artists,
             _score |-> TidalScoreCandidate(base_track, artist, found[i])]])

\* search_tracks(query=None, track=, artist=): parts = [p for p in [track, artist] if p]
NoQueryParts(track, artist) == ~TruthyStr(track) /\ ~TruthyStr(artist)

Unresolved(raised, searched) ==
    [raised |-> raised, searched |-> searched, id |-> NoneId, score |-> 0,
     title |-> NoneStr, artists |-> NoneStr]

\* find_best_match_with_score once the scored, sorted items are there.
TidalBestOf(items) ==
    IF Len(items) = 0 THEN Unresolved(FALSE, TRUE)
    ELSE IF \E k \in 1..Len(items[1].artists) : items[1].artists[k] = NoneStr
    \* ", ".join(a.get("name") ...) over a None name: TypeError
    THEN Unresolved(TRUE, TRUE)
    ELSE [raised |-> FALSE, searched |-> TRUE, id |-> items[1].id,
          score |-> items[1]._score, title |-> items[1].title,
          artists |-> JoinComma(items[1].artists)]

\* TidalLibrary.find_best_match_with_score.  outcome is what the provider search
\* does for this query, [error, items]: it raises (client.search_tracks raises
\* RuntimeError) or it returns the candidates items.  The result says whether
\* the call raised and whether a provider search was issued.
TidalFindBestMatchWithScore(track, artist, outcome) ==
    IF NoQueryParts(track, artist) THEN Unresolved(TRUE, FALSE)      \* ValueError
    ELSE IF outcome.error THEN Unresolved(TRUE, TRUE)                \* RuntimeError
    ELSE TidalBestOf(TidalSearchWithScores(track, artist, outcome.items))

\* YouTubeMusicLibrary.search_tracks_with_scores on the provider's answer.
YtSearchWithScores(track, artist, found) ==
    LET t == OrEmpty(track)
    IN  SortByScoreDesc([i \in 1..Len(found) |->
            [id |-> found[i].id, title |-> found[i].title,
             channelTitle |-> found[i].channelTitle, categoryId |-> found[i].categoryId,
             _score |-> YtScoreCandidate(t, artist, found[i])]])

\* find_best_match_with_score (fallback) once the scored items are there.
YtBestOf(items) ==
    IF Len(items) = 0 THEN Unresolved(FALSE, TRUE)
    ELSE [raised |-> FALSE, searched |-> TRUE, id |-> items[1].id,
          score |-> items[1]._score, title |-> items[1].title,
          artists |-> items[1].channelTitle]

\* YouTubeMusicLibrary.find_best_match_with_score: the client of the sources has
\* no resolve_best_video, so the hasattr test fails and the fallback runs.  The
\* id returned is the search item's "id" object, None when the item has none.
YtFindBestMatchWithScore(track, artist, outcome) ==
    IF NoQueryParts(track, artist) THEN Unresolved(TRUE, FALSE)      \* ValueError
    ELSE IF outcome.error THEN Unresolved(TRUE, TRUE)                \* api_request raises
    ELSE YtBestOf(YtSearchWithScores(track, artist, outcome.items))

-----------------------------------------------------------------------------
(* Parsing what the user types: manual ids and list selections             *)

Digits == <<"0", "1", "2", "3", "4", "5", "6", "7", "8", "9">>
IsDigit(c) == \E d \in 1..10 : Digits[d] = c
DigitVal(c) == (CHOOSE d \in 1..10 : Digits[d] = c) - 1
WordChars == Uppers \o Lowers \o "0123456789_-"
IsWordChar(c) == \E i \in 1..Len(WordChars) : CharAt(WordChars, i) = c

\* str.isdigit(): non-empty and digits only
IsDigitStr(s) == Len(s) > 0 /\ \A i \in 1..Len(s) : IsDigit(CharAt(s, i))

\* int() of a string of digits
RECURSIVE DigitsToInt(_)
DigitsToInt(s) ==
    IF Len(s) = 0 THEN 0
    ELSE 10 * DigitsToInt(SubSeq(s, 1, Len(s) - 1)) + DigitVal(CharAt(s, Len(s)))

\* the longest run of digits of s that starts at position i
RECURSIVE DigitRun(_, _)
DigitRun(s, i) ==
    IF i <= Len(s) /\ IsDigit(CharAt(s, i)) THEN CharAt(s, i) \o DigitRun(s, i + 1) ELSE ""

StartsAt(s, k, prefix) ==
    k + Len(prefix) - 1 <= Len(s) /\ SubSeq(s, k, k + Len(prefix) - 1) = prefix

\* _TIDAL_TRACK_URL_RE.search(s).group(1): the optional scheme and host prefixes
\* never decide whether the pattern matches, so the match is the leftmost
\* "tidal.com/track/<digits>" or "tidal.com/browse/track/<digits>", case ignored.
\* "" when the pattern does not match.
TidalUrlDigits(s) ==
    LET low   == Lower(s)
        cores == <<"tidal.com/track/", "tidal.com/browse/track/">>
        at(k) == {c \in 1..2 : StartsAt(low, k, cores[c])
                               /\ DigitRun(low, k + Len(cores[c])) # ""}
        hits  == {k \in 1..Len(s) : at(k) # {}}
    IN  IF hits = {} THEN ""
        ELSE LET k == CHOOSE h \in hits : \A m \in hits : h <= m
                 c == CHOOSE x \in at(k) : TRUE
             IN  DigitRun(low, k + Len(cores[c]))

\* extract_tidal_track_id below "s = value.strip()", m the digits the pattern
\* matched ("" when it did not match)
TrackIdOf(s, m) ==
    IF m # "" THEN DigitsToInt(m)
    ELSE IF IsDigitStr(s) THEN DigitsToInt(s)
    ELSE NoneId

\* A parser that takes the leading digits of whatever was typed.
ExtractLeadingDigits(value) ==
    IF DigitRun(Strip(value), 1) = "" THEN NoneId ELSE DigitsToInt(DigitRun(Strip(value), 1))

\* extract_tidal_track_id (music_migrator_tidal.py)
extract_tidal_track_id(value) ==
    IF ~TruthyStr(value) THEN NoneId
    ELSE TrackIdOf(Strip(value), TidalUrlDigits(Strip(value)))

\* _YT_URL_RE.search(s).group(1): eleven characters of [\w-] after the leftmost
\* "youtube.com/watch?v=", "youtube.com/playlist?list=" or "youtu.be/".
YtUrlId(s) ==
    LET low   == Lower(s)
        cores == <<"youtube.com/watch?v=", "youtube.com/playlist?list=", "youtu.be/">>
        idAt(k, c) == k + Len(cores[c])
        ok(k, c) == /\ StartsAt(low, k, cores[c])
                    /\ idAt(k, c) + 10 <= Len(s)
                    /\ \A j \in idAt(k, c)..(idAt(k, c) + 10) : IsWordChar(CharAt(s, j))
        at(k) == {c \in 1..3 : ok(k, c)}
        hits  == {k \in 1..Len(s) : at(k) # {}}
    IN  IF hits = {} THEN NoneStr
        ELSE LET k == CHOOSE h \in hits : \A m \in hits : h <= m
                 c == CHOOSE x \in at(k) : TRUE
             IN  SubSeq(s, idAt(k, c), idAt(k, c) + 10)

\* s up to (not including) the first occurrence of the character c
UpTo(s, c) ==
    LET k == FindFrom(s, c, 1) IN IF k = 0 THEN s ELSE SubSeq(s, 1, k - 1)
After(s, c) ==
    LET k == FindFrom(s, c, 1) IN IF k = 0 THEN "" ELSE SubSeq(s, k + Len(c), Len(s))

\* parse_qs(urlparse(url).query).get("v")[0] for the urls modelled (no scheme
\* tricks, no percent escapes): the first non-blank value of a field named v.
RECURSIVE QueryV(_)
QueryV(query) ==
    IF Len(query) = 0 THEN NoneStr
    ELSE LET field == UpTo(query, "&")
             rest  == After(query, "&")
         IN  IF UpTo(field, "=") = "v" /\ After(field, "=") # ""
             THEN After(field, "=")
             ELSE QueryV(rest)

\* extract_video_id_from_url (music_transfer.py)
extract_video_id_from_url(url) ==
    IF ~TruthyStr(url) THEN NoneStr
    ELSE LET m == YtUrlId(Strip(url))
         IN  IF m # NoneStr THEN m
             ELSE IF Contains(url, "watch?v=") THEN QueryV(UpTo(After(url, "?"), "#"))
             ELSE NoneStr

\* idx = int(pick) - 1 ; chosen = opts[idx], with Python's indexing: a negative
\* idx counts from the end, anything outside raises.  The 1-based position of
\* the option chosen, 0 when int() or the indexing raises.
PickedPosition(pick, n) ==
    LET sign   == IF Len(pick) > 0 /\ CharAt(pick, 1) \in {"+", "-"} THEN CharAt(pick, 1) ELSE ""
        digits == IF sign = "" THEN pick ELSE SubSeq(pick, 2, Len(pick))
        val    == IF sign = "-" THEN 0 - DigitsToInt(digits) ELSE DigitsToInt(digits)
        idx    == val - 1
    IN  IF ~IsDigitStr(digits) THEN 0
        ELSE IF idx >= 0 /\ idx < n THEN idx + 1
        ELSE IF idx < 0 /\ idx >= 0 - n THEN n + idx + 1
        ELSE 0

-----------------------------------------------------------------------------
(* Destination collections and the duplicate-suppressing insert helpers.   *)
(* A collection (a playlist, the favorites) is the sequence of the ids it  *)
(* holds, in insertion order; a provider add appends.  Every helper returns *)
(* [content, calls, raised]: the collection afterwards, the provider        *)
(* mutation requests it issued (each the list of ids sent) and whether it   *)
(* ended by raising.  fail = 0 means no provider request fails, fail = k    *)
(* that the k-th provider request of the call raises.                       *)

Range(f) == {f[i] : i \in DOMAIN f}
NotNone(i) == i # NoneId

\* TidalUserClient._dedupe_preserve_order
RECURSIVE DedupePreserveOrder(_, _)
DedupePreserveOrder(ids, seen) ==
    IF Len(ids) = 0 THEN <<>>
    ELSE IF ids[1] \in seen THEN DedupePreserveOrder(Tail(ids), seen)
    ELSE <<ids[1]>> \o DedupePreserveOrder(Tail(ids), seen \cup {ids[1]})

\* TidalLibrary.list_playlist_track_ids / list_favorite_track_ids
ListTrackIds(content) == SelectSeq(content, NotNone)

\* The client insert replacing the playlist's tracks by the ids sent.
ClientAddTracksToPlaylistReplacing(content, track_ids, fail) ==
    IF Len(track_ids) = 0
    THEN [content |-> content, calls |-> <<>>, raised |-> FALSE]
    ELSE [content |-> track_ids, calls |-> <<track_ids>>, raised |-> fail = 1]

\* The client insert with _dedupe_preserve_order left out.
ClientAddTracksToPlaylistNoDedupe(content, track_ids, fail) ==
    IF Len(track_ids) = 0
    THEN [content |-> content, calls |-> <<>>, raised |-> FALSE]
    ELSE IF fail = 1
    THEN [content |-> content, calls |-> <<track_ids>>, raised |-> TRUE]
    ELSE [content |-> content \o track_ids, calls |-> <<track_ids>>, raised |-> FALSE]

\* TidalUserClient.add_tracks_to_playlist: one pl.add per batch of BATCH_SIZE = 100
\* ids, so a single request for the lists modelled here.
ClientAddTracksToPlaylist(content, track_ids, fail) ==
    LET norm_ids == DedupePreserveOrder(track_ids, {})
    IN  IF Len(track_ids) = 0
        THEN [content |-> content, calls |-> <<>>, raised |-> FALSE]
        ELSE IF fail = 1
        THEN [content |-> content, calls |-> <<norm_ids>>, raised |-> TRUE]
        ELSE [content |-> content \o norm_ids, calls |-> <<norm_ids>>, raised |-> FALSE]

\* TidalUserClient.add_favorite_tracks: de-duplicates, then one request per id;
\* the ids before the failing request stay added.
ClientAddFavoriteTracks(content, track_ids, fail) ==
    LET norm_ids == DedupePreserveOrder(track_ids, {})
        n == IF fail = 0 \/ fail > Len(norm_ids) THEN Len(norm_ids) ELSE fail
        added == IF fail = 0 \/ fail > Len(norm_ids) THEN norm_ids
                 ELSE SubSeq(norm_ids, 1, fail - 1)
    IN  [content |-> content \o added,
         calls   |-> [i \in 1..n |-> <<norm_ids[i]>>],
         raised  |-> (fail # 0 /\ fail <= Len(norm_ids))]

\* The filter with the avoid_duplicates check left out.
FreshTrackIdsNoFilter(content, track_ids, avoid_duplicates) ==
    SelectSeq(track_ids, NotNone)

\* TidalLibrary.add_tracks_by_ids up to the provider call: the ids that will be
\* sent, after dropping None and (avoid_duplicates) the ids read back from the
\* collection.
FreshTrackIds(content, track_ids, avoid_duplicates) ==
    LET ids      == SelectSeq(track_ids, NotNone)
        existing == Range(ListTrackIds(content))
    IN  IF avoid_duplicates
        THEN SelectSeq(ids, LAMBDA t : t \notin existing)
        ELSE ids

\* TidalLibrary.add_tracks_by_ids
AddTracksByIds(content, track_ids, avoid_duplicates, fail) ==
    LET fresh == FreshTrackIds(content, track_ids, avoid_duplicates)
    IN  IF Len(fresh) = 0
        THEN [content |-> content, calls |-> <<>>, raised |-> FALSE]
        ELSE ClientAddTracksToPlaylist(content, fresh, fail)

\* TidalLibrary.add_favorites_by_ids
AddFavoritesByIds(content, track_ids, avoid_duplicates, fail) ==
    LET ids      == SelectSeq(track_ids, NotNone)
        existing == Range(ListTrackIds(content))
        fresh    == IF avoid_duplicates
                    THEN SelectSeq(ids, LAMBDA t : t \notin existing)
                    ELSE ids
    IN  IF Len(ids) = 0 \/ Len(fresh) = 0
        THEN [content |-> content, calls |-> <<>>, raised |-> FALSE]
        ELSE ClientAddFavoriteTracks(content, fresh, fail)

\* YouTubeMusicLibrary.list_playlist_video_ids keeps the truthy video ids.
ListPlaylistVideoIds(content) == SelectSeq(content, TruthyId)

\* client.add_videos_to_playlist: YouTubeMusicUserClient defines no such method
\* in the sources; modelled as the provider mutation the design names
\* (add_tracks(playlist_handle, ids)): one request that appends the ids.
YtClientAddVideosToPlaylist(content, video_ids, fail) ==
    IF fail = 1
    THEN [content |-> content, calls |-> <<video_ids>>, raised |-> TRUE]
    ELSE [content |-> content \o video_ids, calls |-> <<video_ids>>, raised |-> FALSE]

\* YouTubeMusicLibrary.add_videos.  An element of video_ids is what the caller
\* passes: [kind |-> "dict", videoId |-> v] for a search result's id object,
\* [kind |-> "str", videoId |-> v] for a bare id string, on which v.get raises
\* AttributeError.
AddVideos(content, video_ids, avoid_duplicates, fail) ==
    LET existing == IF avoid_duplicates THEN Range(ListPlaylistVideoIds(content)) ELSE {}
        wanted   == SelectSeq(video_ids,
                        LAMBDA v : TruthyId(v.videoId) /\ v.videoId \notin existing)
        to_add   == [i \in 1..Len(wanted) |-> wanted[i].videoId]
    IN  IF \E i \in 1..Len(video_ids) : video_ids[i].kind = "str"
        THEN [content |-> content, calls |-> <<>>, raised |-> TRUE]
        ELSE IF Len(to_add) = 0
        THEN [content |-> content, calls |-> <<>>, raised |-> FALSE]
        ELSE YtClientAddVideosToPlaylist(content, to_add, fail)

-----------------------------------------------------------------------------
(* The decision loop of the three migrators: SpotifyToTidalMigrator's      *)
(* migrate_playlist ("tidal_playlist") and migrate_liked_songs              *)
(* ("tidal_liked"), SpotifyToYouTubeMigrator.migrate_playlist               *)
(* ("yt_playlist").  One planned item is [track, artist, id, score, title,  *)
(* artists]; id is tidal_id / video_id, NoneId when nothing was resolved.   *)

\* The test that leaves out the id: a score at or above the threshold suffices.
AutoAcceptScoreOnly(item, threshold) == item.score >= threshold

\* The test with a strict comparison.
AutoAcceptStrict(item, threshold) == TruthyId(item.id) /\ item.score > threshold

\* if item.tidal_id and item.score >= self.score_threshold  (video_id for YouTube)
AutoAccept(item, threshold) == TruthyId(item.id) /\ item.score >= threshold

\* base = f"{item.track} - {item.artist or ''}".strip()   (the dash stands for
\* the em dash of the source)
Base(item) == Strip(item.track \o " - " \o OrEmpty(item.artist))

\* The line _log_skipped_track writes, without its newline.
SkipRecord(playlist_name, item) == playlist_name \o " | " \o Base(item)

\* No migrator writing the skip log.
LogsSkippedNever(kind) == FALSE

\* Only migrate_playlist of the Tidal migrator ends its loop body with
\* self._log_skipped_track(...); the other two loops just print.
LogsSkipped(kind) == kind = "tidal_playlist"

NoInsert(content) == [content |-> content, calls |-> <<>>, raised |-> FALSE]

\* The insert call each migrator makes for one id: add_tracks_by_ids,
\* add_favorites_by_ids, add_videos (always with avoid_duplicates=True, on the
\* id object of a search result).
Insert(kind, content, id, avoid_duplicates, fail) ==
    IF kind = "tidal_playlist" THEN AddTracksByIds(content, <<id>>, avoid_duplicates, fail)
    ELSE IF kind = "tidal_liked" THEN AddFavoritesByIds(content, <<id>>, avoid_duplicates, fail)
    ELSE AddVideos(content, <<[kind |-> "dict", videoId |-> id]>>, TRUE, fail)

\* What processing one item did: the branch taken, the insert calls issued at
\* library level (ins), the destination and provider requests after them, the
\* prompts shown (asked), the manual id buffered, whether _log_skipped_track was
\* called, the provider searches issued, and whether an exception left the loop.
Outcome(branch, ins, r, asked, manual, log, searched, raised) ==
    [branch |-> branch, ins |-> ins, content |-> r.content, calls |-> r.calls,
     asked |-> asked, manual |-> manual, log |-> log, searched |-> searched,
     raised |-> raised]

\* The options _preview_search_tidal formats from the scored items.
TidalOptsOf(items) ==
    IF \E i \in 1..Len(items) : \E k \in 1..Len(items[i].artists) :
           items[i].artists[k] = NoneStr
    THEN [raised |-> TRUE, searched |-> 1, opts |-> <<>>]   \* join over None
    ELSE [raised |-> FALSE, searched |-> 1,
          opts |-> [i \in 1..Len(items) |->
                      [id |-> items[i].id, title |-> items[i].title,
                       artists |-> JoinComma(items[i].artists),
                       _score |-> items[i]._score]]]

\* SpotifyToTidalMigrator._preview_search_tidal
PreviewSearchTidal(track, artist, outcome) ==
    IF NoQueryParts(track, artist) THEN [raised |-> TRUE, searched |-> 0, opts |-> <<>>]
    ELSE IF outcome.error THEN [raised |-> TRUE, searched |-> 1, opts |-> <<>>]
    ELSE TidalOptsOf(TidalSearchWithScores(track, artist, outcome.items))

YtOptsOf(items) ==
    [raised |-> FALSE, searched |-> 1,
     opts |-> [i \in 1..Len(items) |->
                 [id |-> items[i].id, title |-> items[i].title,
                  channel |-> items[i].channelTitle]]]

\* YouTubeMusicLibrary.preview_search is called by the migrator but defined
\* nowhere in the sources; modelled as the design describes list-alternatives:
\* the scored search re-issued, its ranked candidates each with the id object
\* of the search result.
PreviewSearch(track, artist, outcome) ==
    IF NoQueryParts(track, artist) THEN [raised |-> TRUE, searched |-> 0, opts |-> <<>>]
    ELSE IF outcome.error THEN [raised |-> TRUE, searched |-> 1, opts |-> <<>>]
    ELSE YtOptsOf(YtSearchWithScores(track, artist, outcome.items))

\* An item that ends with nothing inserted and nothing buffered.
Omitted(branch, content, asked, searched) ==
    Outcome(branch, <<>>, NoInsert(content), asked, <<>>, FALSE, searched, FALSE)

\* An insert call made in this pass, for one id.
Added(branch, id, r, asked) ==
    Outcome(branch, <<<<id>>>>, r, asked, <<>>, FALSE, 0, r.raised)

\* The YouTube "u" branch once the url is parsed: add_videos is called at once
\* with the id string extract_video_id_from_url returned.
ManualVideo(content, asked, vid, fail) ==
    IF ~TruthyStr(vid) THEN Omitted("manual_invalid", content, asked, 0)
    ELSE Added("manual", vid,
               AddVideos(content, <<[kind |-> "str", videoId |-> vid]>>, TRUE, fail), asked)

\* The Tidal "u" branch once the input is parsed: the id is buffered in
\* pending_manual_ids and nothing is inserted yet.
ManualTrack(content, asked, tid_manual) ==
    IF ~TruthyId(tid_manual) THEN Omitted("manual_invalid", content, asked, 0)
    ELSE Outcome("manual", <<>>, NoInsert(content), asked, <<tid_manual>>, FALSE, 0, FALSE)

\* The "u" branch.
DecideManual(kind, content, asked, inp) ==
    IF kind = "yt_playlist"
    THEN ManualVideo(content, asked \o <<"manual">>,
                     extract_video_id_from_url(Strip(inp.manual)), inp.fail)
    ELSE ManualTrack(content, asked \o <<"manual">>, extract_tidal_track_id(Strip(inp.manual)))

\* The insert of the option picked, inside the try block: an exception of the
\* insert call counts as an invalid selection.
Listed(vid, r, asked) ==
    Outcome(IF r.raised THEN "list_invalid" ELSE "listed", <<<<vid>>>>, r, asked, <<>>,
            FALSE, 1, FALSE)

\* chosen = opts[idx]; vid = chosen.get("id") ...  migrate_playlist of the Tidal
\* migrator passes playlist_id= to add_tracks_by_ids, which has no such
\* parameter: the call raises TypeError before the library does anything.
ListChosen(kind, content, avoid_duplicates, asked, vid, fail) ==
    IF ~TruthyId(vid) THEN Omitted("list_noid", content, asked, 1)
    ELSE IF kind = "tidal_playlist" THEN Omitted("list_invalid", content, asked, 1)
    ELSE Listed(vid, Insert(kind, content, vid, avoid_duplicates, fail), asked)

ListPicked(kind, content, avoid_duplicates, asked, opts, pos, fail) ==
    IF pos = 0 THEN Omitted("list_invalid", content, asked, 1)
    ELSE ListChosen(kind, content, avoid_duplicates, asked, opts[pos].id, fail)

\* The "l" branch once the options are there.  The search is outside the try
\* block, so its exception leaves the loop; everything from int(pick) on is
\* inside it.
ListFrom(kind, content, avoid_duplicates, asked, pre, pick, fail) ==
    IF pre.raised
    THEN Outcome("raised", <<>>, NoInsert(content), asked, <<>>, FALSE, pre.searched, TRUE)
    ELSE IF Len(pre.opts) = 0 THEN Omitted("list_empty", content, asked, 1)
    ELSE IF pick = "" THEN Omitted("list_none", content, asked \o <<"pick">>, 1)
    ELSE ListPicked(kind, content, avoid_duplicates, asked \o <<"pick">>, pre.opts,
                    PickedPosition(pick, Len(pre.opts)), fail)

\* The "l" branch.
DecideList(kind, item, content, avoid_duplicates, asked, inp) ==
    ListFrom(kind, content, avoid_duplicates, asked,
             IF kind = "yt_playlist" THEN PreviewSearch(item.track, item.artist, inp.found)
             ELSE PreviewSearchTidal(item.track, item.artist, inp.found),
             Strip(inp.pick), inp.fail)

\* The accept test with the id left out.
AcceptsAnyId(action, item) == action = "a"

\* if action == "a" and item.tidal_id   (video_id for YouTube)
Accepts(action, item) == action = "a" /\ TruthyId(item.id)

\* The body of the loop below the auto-accept test, the action known.
DecideAction(kind, item, content, avoid_duplicates, action, asked, inp) ==
    IF Accepts(action, item)
    THEN Added("accept", item.id, Insert(kind, content, item.id, avoid_duplicates, inp.fail), asked)
    ELSE IF action = "u" THEN DecideManual(kind, content, asked, inp)
    ELSE IF action = "l" THEN DecideList(kind, item, content, avoid_duplicates, asked, inp)
    ELSE Outcome("skip", <<>>, NoInsert(content), asked, <<>>, LogsSkipped(kind), 0, FALSE)

\* One pass of the body of "for i, item in enumerate(plan, 1)".  forced is
\* PASAR_CANCIONES (the YouTube migrator has no such switch and always
\* prompts); inp is what the environment supplies: the action and strings the
\* user types, the provider's answer to a new search, the request that fails.
DecideItem(kind, item, content, avoid_duplicates, threshold, forced, inp) ==
    IF AutoAccept(item, threshold)
    THEN Added("auto", item.id, Insert(kind, content, item.id, avoid_duplicates, inp.fail), <<>>)
    ELSE IF kind = "yt_playlist" \/ ~TruthyStr(forced)
    THEN DecideAction(kind, item, content, avoid_duplicates, Lower(inp.action),
                      <<"action">>, inp)
    ELSE DecideAction(kind, item, content, avoid_duplicates, forced, <<>>, inp)

\* The flush after the loop: "if pending_manual_ids: add_...(pending_manual_ids)"
Flush(kind, content, pending_ids, avoid_duplicates, fail) ==
    IF Len(pending_ids) = 0 \/ kind = "yt_playlist" THEN NoInsert(content)
    ELSE IF kind = "tidal_playlist" THEN AddTracksByIds(content, pending_ids, avoid_duplicates, fail)
    ELSE AddFavoritesByIds(content, pending_ids, avoid_duplicates, fail)

-----------------------------------------------------------------------------
(* Scorer harness: one call of score_candidate on drawn arguments          *)

TrackSamples == {"", "Yellow", " yellow   LIVE ", "Viva La Vida", "Yellow Remix"}
ArtistSamples == {NoneStr, "", "Coldplay", "COLDPLAY  ", "Earth, Wind"}
TitleSamples == {NoneStr, "Yellow", "Yellow - Live", "Coldplay - Yellow",
                 "Coldplay - Yellow (Live Remix)",
                 "karaoke instrumental cover", "Viva   la  vida"}
ArtistListSamples == {<<>>, <<"Coldplay">>, <<NoneStr, "Cold Play">>, <<"Earth", "Wind">>}

TidalCands == [id : {1}, title : TitleSamples, artists : ArtistListSamples]
YtCands == [id : {1}, title : TitleSamples, channelTitle : {NoneStr, "Coldplay"},
            categoryId : {NoneStr, "10"}]

IsTidalCand(c) == "artists" \in DOMAIN c

\* No resolver call has returned yet.
NoBest == Unresolved(FALSE, FALSE)

\* self._token is None
NoToken == [present |-> FALSE, refresh_token |-> FALSE, expired |-> FALSE]

\* Token(access_token, refresh_token, expires_at), as api_request reads it:
\* whether there is a refresh token and what is_expired answers.
Token(refresh_token, expired) ==
    [present |-> TRUE, refresh_token |-> refresh_token, expired |-> expired]

\* requests raised instead of returning a response.
NoResp == [status |-> 0, content |-> ""]

ApiIdle ==
    /\ apiToken = NoToken /\ apiPc = "idle" /\ apiLog = <<>> /\ apiResp = NoResp
    /\ on401 = "none" /\ apiErr = "none" /\ apiCalls = 0

CacheIdle ==
    /\ provider = <<>> /\ search_cache = {} /\ resolved = <<>> /\ searchCalls = 0

ScoreIdle ==
    /\ sTrack = "" /\ sArtist = NoneStr
    /\ sCand = [id |-> 1, title |-> NoneStr, artists |-> <<>>]
    /\ sResult = NoneId
    /\ rFound = <<>> /\ rBest = NoBest
    /\ CacheIdle

SyncIdle ==
    /\ lib = [a \in {"A", "B"} |-> <<>>] /\ libAtStart = lib
    /\ syncAvoid = TRUE /\ syncPc = "idle" /\ pl_a = 0 /\ pl_b = 0
    /\ ids_a = {} /\ ids_b = {} /\ to_add_a = {} /\ to_add_b = {}
    /\ pending = <<>> /\ runCalls = <<>> /\ runNo = 0 /\ prevReturned = FALSE
    /\ prevCalls = <<>> /\ external = <<>>
    /\ common = <<>> /\ visited = <<>> /\ runPc = "idle"

PlaylistsIdle == plProvider = "none" /\ user_playlists = <<>> /\ got = <<>>

AddIdle ==
    /\ dest = <<>> /\ dest0 = <<>> /\ reqIds = <<>> /\ reqAvoid = TRUE
    /\ provCalls = <<>> /\ addOp = "none" /\ addRaised = FALSE
    /\ PlaylistsIdle

MigIdle ==
    /\ mig = "none" /\ migPc = "idle" /\ migErr = "none" /\ PASAR_CANCIONES = "a"
    /\ score_threshold = 70 /\ migAvoid = TRUE
    /\ tracks = <<>> /\ tPos = 0 /\ plan = <<>> /\ searches = 0
    /\ destExists = FALSE /\ destPl = <<>> /\ pending_manual_ids = <<>>
    /\ insertCalls = <<>> /\ migCalls = <<>> /\ prompts = <<>>
    /\ skipLog = <<>> /\ logTried = 0 /\ logFailed = 0 /\ branches = <<>>
    /\ manualTyped = <<>> /\ inputs = <<>> /\ sessionSearches = 0 /\ destGets = <<>>

InitScore ==
    /\ sTrack \in TrackSamples
    /\ sArtist \in ArtistSamples
    /\ sCand \in TidalCands \cup YtCands
    /\ sResult = NoneId
    /\ rFound = <<>> /\ rBest = NoBest
    /\ CacheIdle /\ AddIdle /\ SyncIdle /\ MigIdle /\ ApiIdle

ScoreTidal ==
    /\ sResult = NoneId /\ IsTidalCand(sCand)
    /\ sResult' = TidalScoreCandidate(sTrack, sArtist, sCand)
    /\ UNCHANGED <<apiVars, sTrack, sArtist, sCand, rFound, rBest, cacheVars, addVars, syncVars, migVars>>

ScoreYouTube ==
    /\ sResult = NoneId /\ ~IsTidalCand(sCand)
    /\ sResult' = YtScoreCandidate(sTrack, sArtist, sCand)
    /\ UNCHANGED <<apiVars, sTrack, sArtist, sCand, rFound, rBest, cacheVars, addVars, syncVars, migVars>>

NextScore == ScoreTidal \/ ScoreYouTube

SpecScore == InitScore /\ [][NextScore]_vars

\* C10: every score score_candidate returns (Tidal and YouTube) is an integer
\* between 0 and 100, whatever title match, token hits, artist matches and
\* penalty words apply.
C10_ScoreInRange == sResult # NoneId => (sResult \in Int /\ 0 <= sResult /\ sResult <= 100)

\* A call whose penalties outweigh its matches: the unclamped sum is negative.
C10_Witness ==
    /\ sResult # NoneId /\ IsTidalCand(sCand)
    /\ TidalRawScore(sTrack, sArtist, sCand) < 0
    /\ sResult = 0

\* Rewritings of a text that change only letter case or the amount of leading,
\* trailing or repeated internal whitespace; None has no rewriting.
RECURSIVE Upper(_)
Upper(s) ==
    IF Len(s) = 0 THEN ""
    ELSE (LET c == CharAt(s, 1)
              hits == {j \in 1..Len(Lowers) : CharAt(Lowers, j) = c}
          IN  IF hits = {} THEN c ELSE CharAt(Uppers, CHOOSE j \in hits : TRUE))
         \o Upper(SubSeq(s, 2, Len(s)))

RECURSIVE WidenWs(_)
WidenWs(s) ==
    IF Len(s) = 0 THEN ""
    ELSE (IF IsSpace(CharAt(s, 1)) THEN CharAt(s, 1) \o " \t" ELSE CharAt(s, 1))
         \o WidenWs(SubSeq(s, 2, Len(s)))

CaseWsVariants(s) ==
    IF s = NoneStr THEN {s}
    ELSE {s, Upper(s), Lower(s), "  " \o s, s \o " ", WidenWs(s)}

\* The same rewritings applied to one name of a candidate's artist list.
NameVariants(names) ==
    UNION {{[names EXCEPT ![k] = v] : v \in CaseWsVariants(names[k])} : k \in 1..Len(names)}
        \cup {names}

\* C11: score_candidate (Tidal) returns the same value when the track, the
\* artist, the candidate title or a candidate artist name is replaced by a
\* version that differs only in letter case or in leading, trailing or repeated
\* internal whitespace.
C11_ScoreCaseWsInvariant ==
    (sResult # NoneId /\ IsTidalCand(sCand)) =>
        /\ \A t \in CaseWsVariants(sTrack) :
              TidalScoreCandidate(t, sArtist, sCand) = sResult
        /\ \A a \in CaseWsVariants(sArtist) :
              TidalScoreCandidate(sTrack, a, sCand) = sResult
        /\ \A ti \in CaseWsVariants(sCand.title) :
              TidalScoreCandidate(sTrack, sArtist, [sCand EXCEPT !.title = ti]) = sResult
        /\ \A ns \in NameVariants(sCand.artists) :
              TidalScoreCandidate(sTrack, sArtist, [sCand EXCEPT !.artists = ns]) = sResult

\* The part of C11 that the scorer does keep: rewriting the track, the artist
\* or the candidate title never changes the score.
C11_TrackArtistTitleInvariant ==
    (sResult # NoneId /\ IsTidalCand(sCand)) =>
        /\ \A t \in CaseWsVariants(sTrack) :
              TidalScoreCandidate(t, sArtist, sCand) = sResult
        /\ \A a \in CaseWsVariants(sArtist) :
              TidalScoreCandidate(sTrack, a, sCand) = sResult
        /\ \A ti \in CaseWsVariants(sCand.title) :
              TidalScoreCandidate(sTrack, sArtist, [sCand EXCEPT !.title = ti]) = sResult

\* The score of the call in sTrack, sArtist, sCand before the penalties are
\* subtracted (and before the clamp): what the matches and the bonus add up to.
BeforePenalties ==
    IF IsTidalCand(sCand)
    THEN TidalRawScore(sTrack, sArtist, sCand)
           + Penalty(TIDAL_PENAL_WORDS, Norm(sCand.title), Norm(sTrack), 8)
    ELSE YtRawScore(sTrack, sArtist, sCand)
           + Penalty(YT_PENAL_WORDS, Norm(sCand.title), Norm(sTrack), 10)

\* The normalized track string is a substring of the normalized candidate title
\* (the empty string is a substring of every title).
TrackInTitle == Contains(Norm(sCand.title), Norm(sTrack))

\* C12 as stated: for every track string, the empty one included, a normalized
\* track that is a substring of the normalized title scores at least 55 before
\* penalties.
C12_SubstringAtLeast55 ==
    (sResult # NoneId /\ TrackInTitle) => BeforePenalties >= 55

\* C12, amended: a non-empty normalized track that is a substring of the
\* normalized title scores at least 55 before penalties; an empty normalized
\* track earns nothing from the title, so its score before penalties is the
\* artist matches and the category bonus only, below 55.
C12_NonEmptySubstringAtLeast55 ==
    sResult # NoneId =>
        /\ (Norm(sTrack) # "" /\ TrackInTitle) => BeforePenalties >= 55
        /\ Norm(sTrack) = "" => BeforePenalties <= 40

\* A contained track whose penalties take the returned score below 55.
C12_Witness ==
    /\ sResult # NoneId /\ Norm(sTrack) # "" /\ TrackInTitle
    /\ BeforePenalties >= 55 /\ sResult < 55

\* The penalty words of the specification, and how many of them occur in the
\* candidate title without occurring in the normalized track string.
SpecPenalWords == {"cover", "karaoke", "remix", "instrumental", "live"}
PenalizedWords ==
    {w \in SpecPenalWords : Contains(Norm(sCand.title), w) /\ ~Contains(Norm(sTrack), w)}

\* What the harness' scorer returns for the call in sTrack, sArtist on candidate c.
ScoreOf(c) ==
    IF IsTidalCand(c) THEN TidalScoreCandidate(sTrack, sArtist, c)
    ELSE YtScoreCandidate(sTrack, sArtist, c)

\* What the call's scorer subtracted in all.
Subtracted ==
    IF IsTidalCand(sCand)
    THEN Penalty(TIDAL_PENAL_WORDS, Norm(sCand.title), Norm(sTrack), 8)
    ELSE Penalty(YT_PENAL_WORDS, Norm(sCand.title), Norm(sTrack), 10)

\* C13: each scorer subtracts its fixed penalty once for each of the words
\* cover, karaoke, remix, instrumental, live that occurs in the candidate title
\* and not in the normalized track string, and nothing for the others; for
\* track "Yellow" the candidate "Yellow - Live" scores strictly lower than the
\* same candidate titled "Yellow".
C13_PenaltyPerWord ==
    sResult # NoneId =>
        /\ Subtracted = (IF IsTidalCand(sCand) THEN 8 ELSE 10) * Cardinality(PenalizedWords)
        /\ (sTrack = "Yellow" /\ sCand.title = "Yellow - Live") =>
              sResult < ScoreOf([sCand EXCEPT !.title = "Yellow"])

\* The same statement for the Tidal scorer alone, which it satisfies.
C13_TidalPenaltyPerWord ==
    (sResult # NoneId /\ IsTidalCand(sCand)) =>
        /\ Subtracted = 8 * Cardinality(PenalizedWords)
        /\ (sTrack = "Yellow" /\ sCand.title = "Yellow - Live") =>
              sResult < ScoreOf([sCand EXCEPT !.title = "Yellow"])

-----------------------------------------------------------------------------
(* Insert harness: one insert request against one destination collection   *)

AddMaxId == 2
AddMaxLen == 2

SeqsUpTo(S, n) == UNION {[1..k -> S] : k \in 0..n}

InitAdd ==
    /\ dest \in SeqsUpTo(1..AddMaxId, AddMaxLen)
    /\ dest0 = dest
    /\ reqIds \in SeqsUpTo({NoneId} \cup (1..AddMaxId), AddMaxLen)
    /\ reqAvoid \in BOOLEAN
    /\ provCalls = <<>> /\ addOp = "none" /\ addRaised = FALSE
    /\ PlaylistsIdle
    /\ ScoreIdle /\ SyncIdle /\ MigIdle /\ ApiIdle

ApplyAdd(op, r) ==
    /\ dest' = r.content
    /\ provCalls' = provCalls \o r.calls
    /\ addRaised' = r.raised
    /\ addOp' = op
    /\ UNCHANGED <<apiVars, dest0, reqIds, reqAvoid, playlistVars, scoreVars, syncVars, migVars>>

CallAddTracksByIds ==
    /\ addOp = "none"
    /\ \E fail \in 0..1 :
         ApplyAdd("add_tracks_by_ids", AddTracksByIds(dest, reqIds, reqAvoid, fail))

CallAddFavoritesByIds ==
    /\ addOp = "none"
    /\ \E fail \in 0..Len(reqIds) :
         ApplyAdd("add_favorites_by_ids", AddFavoritesByIds(dest, reqIds, reqAvoid, fail))

CallAddVideos ==
    /\ addOp = "none"
    /\ \E fail \in 0..1, kind \in {"dict", "str"} :
         ApplyAdd("add_videos",
                  AddVideos(dest, [i \in 1..Len(reqIds) |-> [kind |-> kind, videoId |-> reqIds[i]]],
                            reqAvoid, fail))

NextAdd == CallAddTracksByIds \/ CallAddFavoritesByIds \/ CallAddVideos

SpecAdd == InitAdd /\ [][NextAdd]_vars

AllRequestedPresent == \A i \in 1..Len(reqIds) : reqIds[i] # NoneId => reqIds[i] \in Range(dest0)

\* C8: with avoid_duplicates=True, an insert request (add_tracks_by_ids,
\* add_favorites_by_ids, add_videos) all of whose ids are already in the
\* destination issues no provider mutation request and leaves the destination
\* as it was.
C8_AllPresentNoMutation ==
    (addOp # "none" /\ reqAvoid /\ AllRequestedPresent)
        => (provCalls = <<>> /\ dest = dest0)

\* add_tracks_by_ids has returned for a request of two ids, both present.
C8_Witness ==
    /\ addOp = "add_tracks_by_ids" /\ reqAvoid /\ AllRequestedPresent
    /\ Len(reqIds) = 2 /\ reqIds[1] # NoneId /\ reqIds[2] # NoneId /\ reqIds[1] # reqIds[2]
    /\ provCalls = <<>> /\ ~addRaised

-----------------------------------------------------------------------------
(* get_or_create_playlist of the two libraries                              *)

\* The first position whose title satisfies the test, 0 when there is none.
FirstMatch(titles, Matches(_)) ==
    IF \E j \in 1..Len(titles) : Matches(titles[j])
    THEN CHOOSE j \in 1..Len(titles) :
            Matches(titles[j]) /\ \A m \in 1..(j - 1) : ~Matches(titles[m])
    ELSE 0

\* TidalLibrary.get_or_create_playlist:
\* (p.get("title") or "").strip().lower() == title.strip().lower()
TidalTitleMatches(existing, title) == Lower(Strip(OrEmpty(existing))) = Lower(Strip(title))

\* YouTubeMusicLibrary.get_or_create_playlist: snippet.title == title
YtTitleMatches(existing, title) == existing = title

\* get_or_create_playlist(title) on the account's playlists: the playlist at the
\* first matching position is returned, otherwise create_playlist(title) adds
\* one (client.create_playlist of the YouTube client is not in the sources; it
\* is taken to add the playlist to the account as the Tidal one does).
GetOrCreateAt(titles, title, hit) ==
    IF hit # 0
    THEN [playlists |-> titles, handle |-> hit, created |-> FALSE]
    ELSE [playlists |-> Append(titles, title), handle |-> Len(titles) + 1, created |-> TRUE]

GetOrCreatePlaylist(kind, titles, title) ==
    GetOrCreateAt(titles, title,
                  IF kind = "tidal"
                  THEN FirstMatch(titles, LAMBDA e : TidalTitleMatches(e, title))
                  ELSE FirstMatch(titles, LAMBDA e : YtTitleMatches(e, title)))

MaxGets == 3

PlaylistTitleSamples == {"Road Mix", "road mix", " ROAD MIX", "Other"}

InitPlaylists ==
    /\ plProvider \in {"tidal", "yt"}
    /\ user_playlists \in {<<>>, <<"Road Mix">>, <<"Other">>, <<NoneStr, "ROAD mix">>}
    /\ got = <<>>
    /\ dest = <<>> /\ dest0 = <<>> /\ reqIds = <<>> /\ reqAvoid = TRUE
    /\ provCalls = <<>> /\ addOp = "none" /\ addRaised = FALSE
    /\ ScoreIdle /\ SyncIdle /\ MigIdle /\ ApiIdle

GotPlaylist(title, r) ==
    /\ got' = Append(got, [title |-> title, before |-> user_playlists, handle |-> r.handle,
                           created |-> r.created])
    /\ user_playlists' = r.playlists

\* One call get_or_create_playlist(title).
CallGetOrCreate ==
    /\ Len(got) < MaxGets
    /\ \E title \in PlaylistTitleSamples :
         GotPlaylist(title, GetOrCreatePlaylist(plProvider, user_playlists, title))
    /\ UNCHANGED <<apiVars, plProvider, dest, dest0, reqIds, reqAvoid, provCalls, addOp, addRaised,
                   scoreVars, syncVars, migVars>>

NextPlaylists == CallGetOrCreate

SpecPlaylists == InitPlaylists /\ [][NextPlaylists]_vars

\* Two titles are equal up to letter case.
SameUpToCase(a, b) == Lower(OrEmpty(a)) = Lower(OrEmpty(b))

\* The playlists the account had before call k whose name equals the title asked
\* for up to letter case.
NamedAlike(k) == {j \in 1..Len(got[k].before) : SameUpToCase(got[k].before[j], got[k].title)}

\* Every call returned an existing playlist of that name when there was one and
\* created one only when there was none; so titles that differ only in case
\* created at most one playlist.
CaseInsensitiveGetOrCreate ==
    /\ \A k \in 1..Len(got) :
          IF NamedAlike(k) # {}
          THEN ~got[k].created /\ got[k].handle \in NamedAlike(k)
          ELSE got[k].created => got[k].handle = Len(got[k].before) + 1
    /\ \A j, k \in 1..Len(got) :
          (j < k /\ SameUpToCase(got[j].title, got[k].title))
              => ~(got[j].created /\ got[k].created)

\* C28: get_or_create_playlist(title) returns the existing playlist whenever the
\* account has one whose name equals title up to letter case and creates one
\* only when there is none, so calls with titles that differ only in case
\* create at most one playlist.
C28_GetOrCreateIgnoresCase ==
    CaseInsensitiveGetOrCreate

\* What holds: the Tidal library does so.
C28_TidalIgnoresCase ==
    plProvider = "tidal" => CaseInsensitiveGetOrCreate

-----------------------------------------------------------------------------
(* TidalPlaylistsSynchronizer.  An account is the list of its playlists,    *)
(* each [title, tracks]; a playlist handle is its position in that list,    *)
(* NoPl for None.                                                           *)

NoPl == 0

\* sorted(ids)
RECURSIVE Sorted(_)
Sorted(S) ==
    IF S = {} THEN <<>>
    ELSE LET m == CHOOSE x \in S : \A y \in S : x <= y
         IN  <<m>> \o Sorted(S \ {m})

\* TidalLibrary.get_playlist_by_title is called by sync_single_playlist but not
\* defined in the sources; modelled as the design's lookup "by case-insensitive
\* exact name match", with the comparison get_or_create_playlist uses
\* (strip().lower() on both sides).  It returns None when there is no match and
\* never creates a playlist.
GetPlaylistByTitle(playlists, title) ==
    LET hit(i) == Lower(Strip(playlists[i].title)) = Lower(Strip(title))
    IN  IF \E i \in 1..Len(playlists) : hit(i)
        THEN CHOOSE i \in 1..Len(playlists) : hit(i) /\ \A j \in 1..(i - 1) : ~hit(j)
        ELSE NoPl

\* The guard with `and` for `or`.
SyncPlaylistsMissingBoth(a, b) == a = NoPl /\ b = NoPl
\* if pl_a is None or pl_b is None
SyncPlaylistsMissing(a, b) == a = NoPl \/ b = NoPl

\* The difference forgotten: everything in the union is sent.
ToAddAll(union_ids, ids) == union_ids
\* The difference taken the wrong way round.
ToAddReversed(union_ids, ids) == ids \ union_ids
\* to_add = union_ids - ids
ToAdd(union_ids, ids) == union_ids \ ids

SyncTitle == "Roadtrip"
SyncMaxId == 3
MaxRuns == 2

Playlist(t, c) == [title |-> t, tracks |-> c]
OtherPlaylist == Playlist("Chill", <<1>>)
AccountSamples ==
    {<<OtherPlaylist>>}
    \cup {<<Playlist("ROADTRIP ", Sorted(c))>> : c \in SUBSET (1..SyncMaxId)}
    \cup {<<OtherPlaylist, Playlist("Roadtrip", Sorted(c))>> : c \in SUBSET (1..SyncMaxId)}

TracksOf(account, pl) == lib[account][pl].tracks
SetTracks(l, account, pl, content) ==
    [l EXCEPT ![account] = [@ EXCEPT ![pl] = [@ EXCEPT !.tracks = content]]]

InitSync ==
    /\ lib \in [{"A", "B"} -> AccountSamples]
    /\ libAtStart = lib
    /\ syncAvoid \in BOOLEAN
    /\ syncPc = "idle" /\ pl_a = NoPl /\ pl_b = NoPl
    /\ ids_a = {} /\ ids_b = {} /\ to_add_a = {} /\ to_add_b = {}
    /\ pending = <<>> /\ runCalls = <<>> /\ runNo = 0 /\ prevReturned = FALSE
    /\ prevCalls = <<>> /\ external = <<>>
    /\ common = <<>> /\ visited = <<>> /\ runPc = "idle"
    /\ ScoreIdle /\ AddIdle /\ MigIdle /\ ApiIdle

\* sync_single_playlist, lines 90-117: look both playlists up, read both id
\* sets, compute the union and the two differences.
SyncBegin ==
    /\ syncPc = "idle" /\ runNo < MaxRuns
    /\ runNo' = runNo + 1
    /\ libAtStart' = lib
    /\ runCalls' = <<>> /\ pending' = <<>>
    /\ LET a == GetPlaylistByTitle(lib["A"], SyncTitle)
           b == GetPlaylistByTitle(lib["B"], SyncTitle)
       IN  /\ pl_a' = a /\ pl_b' = b
           /\ IF SyncPlaylistsMissing(a, b)
              THEN /\ syncPc' = "done"
                   /\ ids_a' = {} /\ ids_b' = {} /\ to_add_a' = {} /\ to_add_b' = {}
              ELSE IF a = NoPl \/ b = NoPl
              \* list_playlist_track_ids(None): AttributeError
              THEN /\ syncPc' = "raised"
                   /\ ids_a' = {} /\ ids_b' = {} /\ to_add_a' = {} /\ to_add_b' = {}
              ELSE LET ia == Range(ListTrackIds(TracksOf("A", a)))
                       ib == Range(ListTrackIds(TracksOf("B", b)))
                       union_ids == ia \cup ib
                   IN  /\ ids_a' = ia /\ ids_b' = ib
                       /\ IF ia = {} /\ ib = {}
                          THEN syncPc' = "done" /\ to_add_a' = {} /\ to_add_b' = {}
                          ELSE /\ syncPc' = "addA"
                               /\ to_add_a' = ToAdd(union_ids, ia)
                               /\ to_add_b' = ToAdd(union_ids, ib)
    /\ UNCHANGED <<apiVars, external, lib, syncAvoid, prevReturned, prevCalls, common, visited, runPc,
                   scoreVars, addVars, migVars>>

SidePl(side) == IF side = "A" THEN pl_a ELSE pl_b
SideToAdd(side) == IF side = "A" THEN to_add_a ELSE to_add_b
AfterSide(side) == IF side = "A" THEN "addB" ELSE "done"

\* `if to_add: add_tracks_by_ids(pl, sorted(to_add), avoid_duplicates)` up to the
\* provider call: the ids are filtered against the playlist as it is now.
SyncAdd(side) ==
    /\ syncPc = "add" \o side
    /\ LET f == IF SideToAdd(side) = {} THEN <<>>
                ELSE FreshTrackIds(TracksOf(side, SidePl(side)),
                                   Sorted(SideToAdd(side)), syncAvoid)
       IN  /\ pending' = f
           /\ syncPc' = IF Len(f) = 0 THEN AfterSide(side) ELSE "call" \o side
    /\ UNCHANGED <<apiVars, external, lib, syncAvoid, pl_a, pl_b, ids_a, ids_b, to_add_a, to_add_b,
                   runCalls, libAtStart, runNo, prevReturned, prevCalls, common, visited, runPc,
                   scoreVars, addVars, migVars>>

\* client.add_tracks_to_playlist(pl, ids); a provider failure is re-raised and
\* leaves sync_single_playlist.
SyncCall(side) ==
    /\ syncPc = "call" \o side
    /\ \E fail \in 0..1 :
        LET r == ClientAddTracksToPlaylist(TracksOf(side, SidePl(side)), pending, fail)
        IN  /\ lib' = SetTracks(lib, side, SidePl(side), r.content)
            /\ runCalls' = runCalls \o [i \in 1..Len(r.calls) |-> [account |-> side, ids |-> r.calls[i]]]
            /\ syncPc' = IF r.raised THEN "raised" ELSE AfterSide(side)
    /\ pending' = <<>>
    /\ UNCHANGED <<apiVars, external, syncAvoid, pl_a, pl_b, ids_a, ids_b, to_add_a, to_add_b,
                   libAtStart, runNo, prevReturned, prevCalls, common, visited, runPc,
                   scoreVars, addVars, migVars>>

\* The run is over (returned, or left by the exception); the caller may run again.
\* runCalls, the record of the run's provider calls, moves to prevCalls.
SyncReturn ==
    /\ syncPc \in {"done", "raised"}
    /\ runNo < MaxRuns
    /\ syncPc' = "idle"
    /\ prevReturned' = (syncPc = "done")
    /\ prevCalls' = runCalls /\ runCalls' = <<>>
    /\ UNCHANGED <<apiVars, external, lib, syncAvoid, pl_a, pl_b, ids_a, ids_b, to_add_a, to_add_b,
                   pending, libAtStart, runNo, common, visited, runPc,
                   scoreVars, addVars, migVars>>

NextSync ==
    \/ SyncBegin
    \/ SyncAdd("A") \/ SyncCall("A")
    \/ SyncAdd("B") \/ SyncCall("B")
    \/ SyncReturn

SpecSync == InitSync /\ [][NextSync]_vars

BothExist == pl_a # NoPl /\ pl_b # NoPl
IdSet(account, pl) == Range(TracksOf(account, pl))
CallsTo(side) == SelectSeq(runCalls, LAMBDA c : c.account = side)

\* The two id sets as they were when the run began.
StartSet(account, pl) == Range(libAtStart[account][pl].tracks)
ExpectedCalls(side, missing) ==
    IF missing = {} THEN <<>> ELSE <<[account |-> side, ids |-> Sorted(missing)]>>

\* C1: when sync_single_playlist has returned for a playlist present in both
\* accounts (no insertion failure, nobody else writing), the two playlists hold
\* the same set of track ids, and that set is the union of the two sets read at
\* the start of the run.
C1_SymmetricUnion ==
    (syncPc = "done" /\ BothExist)
        => /\ IdSet("A", pl_a) = IdSet("B", pl_b)
           /\ IdSet("A", pl_a) = ids_a \cup ids_b
           /\ ids_a = StartSet("A", pl_a) /\ ids_b = StartSet("B", pl_b)

\* A run that had to add to both sides has returned.
C1_Witness ==
    /\ syncPc = "done" /\ BothExist
    /\ StartSet("A", pl_a) \ StartSet("B", pl_b) # {}
    /\ StartSet("B", pl_b) \ StartSet("A", pl_a) # {}
    /\ Len(runCalls) = 2

\* C2: a run of sync_single_playlist that follows a run which returned, with
\* nothing else writing in between, issues no client.add_tracks_to_playlist call
\* on either account, whatever the two id sets were at the beginning.
C2_SecondRunNoCalls ==
    (runNo >= 2 /\ prevReturned) => (runCalls = <<>> /\ pending = <<>>)

\* The second run has returned after a first run that added to both accounts.
C2_Witness ==
    /\ runNo = 2 /\ syncPc = "done" /\ prevReturned /\ BothExist
    /\ Len(prevCalls) = 2 /\ runCalls = <<>>

\* C3: in one run that returns, account A is sent exactly the ids B held and A
\* did not, account B exactly the ids A held and B did not, each in one add call;
\* a side that misses nothing gets no add call (so no id a side already held is
\* ever sent to it).  For {1,2,3} and {3,4}: A receives {4}, B receives {1,2}.
C3_ExactDifferences ==
    (syncPc = "done" /\ BothExist)
        => LET a0 == StartSet("A", pl_a)
               b0 == StartSet("B", pl_b)
           IN  /\ CallsTo("A") = ExpectedCalls("A", b0 \ a0)
               /\ CallsTo("B") = ExpectedCalls("B", a0 \ b0)
               /\ (a0 = {1, 2, 3} /\ b0 = {3, 4})
                     => runCalls = << [account |-> "A", ids |-> <<4>>],
                                      [account |-> "B", ids |-> <<1, 2>>] >>

\* A holds {1,2}, B holds {2,3}: A was sent 3, B was sent 1; and a run in which
\* one side missed nothing.
C3_Witness ==
    /\ syncPc = "done" /\ BothExist
    /\ StartSet("A", pl_a) = {1, 2} /\ StartSet("B", pl_b) = {2, 3}
    /\ runCalls = << [account |-> "A", ids |-> <<3>>], [account |-> "B", ids |-> <<1>>] >>

\* C4: when the playlist is missing in account A or in account B, the run makes
\* no add call, creates no playlist and changes no playlist's contents, and it
\* returns without raising.
C4_MissingIsNoOp ==
    (runNo >= 1 /\ ~BothExist)
        => /\ syncPc \in {"done", "idle"}
           /\ (syncPc = "idle" => prevReturned)
           /\ runCalls = <<>> /\ pending = <<>>
           /\ lib = libAtStart

\* The playlist exists in B only, and the run has returned.
C4_Witness ==
    /\ syncPc = "done" /\ pl_a = NoPl /\ pl_b # NoPl
    /\ TracksOf("B", pl_b) # <<>>

-----------------------------------------------------------------------------
(* TidalPlaylistsSynchronizer.run: every common playlist in turn            *)

\* The characters of the titles in code point order, for sorted() on strings.
CodePointOrder ==
    "\t (),-./0123456789:ABCDEFGHIJKLMNOPQRSTUVWXYZ_abcdefghijklmnopqrstuvwxyz|"
CodePointRank(c) ==
    CHOOSE i \in 1..Len(CodePointOrder) : CharAt(CodePointOrder, i) = c

\* a < b on Python strings
RECURSIVE StrLess(_, _)
StrLess(a, b) ==
    IF Len(b) = 0 THEN FALSE
    ELSE IF Len(a) = 0 THEN TRUE
    ELSE IF CharAt(a, 1) = CharAt(b, 1)
         THEN StrLess(SubSeq(a, 2, Len(a)), SubSeq(b, 2, Len(b)))
         ELSE CodePointRank(CharAt(a, 1)) < CodePointRank(CharAt(b, 1))

\* sorted(common)
RECURSIVE SortedTitles(_)
SortedTitles(S) ==
    IF S = {} THEN <<>>
    ELSE LET m == CHOOSE x \in S : \A y \in S : x = y \/ StrLess(x, y)
         IN  <<m>> \o SortedTitles(S \ {m})

\* _build_title_map: normalized title -> the first stripped title that has it;
\* given as the set of positions whose title is kept.
KeptTitles(playlists) ==
    {i \in 1..Len(playlists) :
        /\ Strip(OrEmpty(playlists[i].title)) # ""
        /\ \A j \in 1..(i - 1) :
              Lower(Strip(OrEmpty(playlists[j].title)))
                  # Lower(Strip(OrEmpty(playlists[i].title)))}

\* The intersection with B left out: every title kept of account A.
GetCommonPlaylistsOfA(l) ==
    {Strip(l["A"][i].title) : i \in KeptTitles(l["A"])}

\* _get_common_playlists: the titles, as account A writes them, whose
\* normalized form is also a title of account B.  TidalLibrary.list_user_playlists
\* is not part of the sources; it is taken to list the account's playlists.
GetCommonPlaylists(l) ==
    {Strip(l["A"][i].title) : i \in
        {i \in KeptTitles(l["A"]) :
            \E j \in KeptTitles(l["B"]) :
                Lower(Strip(l["B"][j].title)) = Lower(Strip(l["A"][i].title))}}

\* What one side's add_tracks_by_ids call leaves: the library, the provider
\* calls so far, and whether the call raised.
SideAdded(l, side, pl, calls, r) ==
    [lib |-> [l EXCEPT ![side] = [@ EXCEPT ![pl] = [@ EXCEPT !.tracks = r.content]]],
     calls |-> calls \o [k \in 1..Len(r.calls) |-> [account |-> side, ids |-> r.calls[k]]],
     raised |-> r.raised]

\* "if to_add: add_tracks_by_ids(pl, sorted(to_add), avoid_duplicates)"
AddToSide(l, side, pl, missing, avoid_duplicates, fail, calls) ==
    IF missing = {} THEN [lib |-> l, calls |-> calls, raised |-> FALSE]
    ELSE SideAdded(l, side, pl, calls,
                   AddTracksByIds(l[side][pl].tracks, Sorted(missing), avoid_duplicates, fail))

\* The two add steps: B's is not reached when A's raised.
AddToBoth(afterA, b, missingB, avoid_duplicates, failB) ==
    IF afterA.raised THEN afterA
    ELSE AddToSide(afterA.lib, "B", b, missingB, avoid_duplicates, failB, afterA.calls)

\* sync_single_playlist from the two id sets on.
SyncFromSets(l, a, b, ia, ib, avoid_duplicates, failA, failB) ==
    IF ia = {} /\ ib = {} THEN [lib |-> l, calls |-> <<>>, raised |-> FALSE]
    ELSE AddToBoth(AddToSide(l, "A", a, ToAdd(ia \cup ib, ia), avoid_duplicates, failA, <<>>),
                   b, ToAdd(ia \cup ib, ib), avoid_duplicates, failB)

\* sync_single_playlist from the two handles on.
SyncFromHandles(l, a, b, avoid_duplicates, failA, failB) ==
    IF SyncPlaylistsMissing(a, b) THEN [lib |-> l, calls |-> <<>>, raised |-> FALSE]
    ELSE SyncFromSets(l, a, b, Range(ListTrackIds(l["A"][a].tracks)),
                      Range(ListTrackIds(l["B"][b].tracks)), avoid_duplicates, failA, failB)

\* One whole call of sync_single_playlist(title) on the library l; failA and
\* failB say whether the provider rejects the add request of that side.
SyncSinglePlaylist(l, title, avoid_duplicates, failA, failB) ==
    SyncFromHandles(l, GetPlaylistByTitle(l["A"], title), GetPlaylistByTitle(l["B"], title),
                    avoid_duplicates, failA, failB)

RunMaxId == 2

RunAccountsA ==
    {<<Playlist("Roadtrip", Sorted(c)), Playlist(" Chill", d), Playlist("  ", <<2>>)>> :
        c \in SUBSET (1..RunMaxId), d \in {<<>>, <<1>>}}
RunAccountsB ==
    {<<Playlist("CHILL", d)>> : d \in {<<>>, <<2>>}}
    \cup {<<Playlist("chill", <<2>>), Playlist("Other", <<1>>), Playlist("roadtrip ", Sorted(c)),
             Playlist("", <<1>>)>> :
            c \in SUBSET (1..RunMaxId)}
    \cup {<<Playlist("Other", <<1>>)>>}

InitRun ==
    /\ \E la \in RunAccountsA, lb \in RunAccountsB :
         lib = [account \in {"A", "B"} |-> IF account = "A" THEN la ELSE lb]
    /\ libAtStart = lib
    /\ syncAvoid \in BOOLEAN
    /\ syncPc = "idle" /\ pl_a = NoPl /\ pl_b = NoPl
    /\ ids_a = {} /\ ids_b = {} /\ to_add_a = {} /\ to_add_b = {}
    /\ pending = <<>> /\ runCalls = <<>> /\ runNo = 0 /\ prevReturned = FALSE
    /\ prevCalls = <<>> /\ external = <<>>
    /\ common = <<>> /\ visited = <<>> /\ runPc = "start"
    /\ ScoreIdle /\ AddIdle /\ MigIdle /\ ApiIdle

\* run up to the loop: common = self._get_common_playlists(); no common
\* playlist ends the run.
RunStart ==
    /\ runPc = "start"
    /\ common' = SortedTitles(GetCommonPlaylists(lib))
    /\ runPc' = IF GetCommonPlaylists(lib) = {} THEN "done" ELSE "loop"
    /\ UNCHANGED <<apiVars, external, lib, syncAvoid, syncPc, pl_a, pl_b, ids_a, ids_b, to_add_a, to_add_b,
                   pending, runCalls, libAtStart, runNo, prevReturned, prevCalls, visited,
                   scoreVars, addVars, migVars>>

\* The effect of one pass once sync_single_playlist has run (r), or was declined.
RunVisited(title, ok, r) ==
    /\ visited' = Append(visited, [title |-> title, called |-> ok])
    /\ lib' = IF ok THEN r.lib ELSE lib
    /\ runCalls' = IF ok THEN runCalls \o r.calls ELSE runCalls
    /\ runPc' = IF ok /\ r.raised THEN "raised"
                ELSE IF Len(visited) + 1 = Len(common) THEN "done" ELSE "loop"

\* One pass of "for title in sorted(common)": the user may decline the playlist
\* (ask_per_playlist); otherwise sync_single_playlist(title) is called, outside
\* any try block, so its exception leaves run.
RunNext ==
    /\ runPc = "loop"
    /\ \E ok \in BOOLEAN, failA \in 0..1, failB \in 0..1 :
         RunVisited(common[Len(visited) + 1], ok,
                    SyncSinglePlaylist(lib, common[Len(visited) + 1], syncAvoid, failA, failB))
    /\ UNCHANGED <<apiVars, external, syncAvoid, syncPc, pl_a, pl_b, ids_a, ids_b, to_add_a, to_add_b,
                   pending, libAtStart, runNo, prevReturned, prevCalls, common,
                   scoreVars, addVars, migVars>>

NextRun == RunStart \/ RunNext

SpecRun == InitRun /\ [][NextRun]_vars

\* C18: a failure while one common playlist is reconciled does not block the
\* others: when run is over, the loop has reached every common playlist, and
\* sync_single_playlist was invoked for each one the user did not decline.
C18_FailureDoesNotBlockOthers ==
    runPc \in {"done", "raised"} =>
        /\ Len(visited) = Len(common)
        /\ \A i \in 1..Len(common) : visited[i].title = common[i]

\* What run does keep: the playlists are reached in sorted order, and as long
\* as no call raises every one of them is reached.
C18_AllReachedUnlessRaised ==
    /\ \A i \in 1..Len(visited) : visited[i].title = common[i]
    /\ runPc = "done" => Len(visited) = Len(common)

-----------------------------------------------------------------------------
(* Resolver harness: one find_best_match_with_score call on a drawn answer *)

\* What the provider's search does for one query.
Answer(items) == [error |-> FALSE, items |-> items]
SearchFails == [error |-> TRUE, items |-> <<>>]

MaxFound == 2

ResolveTrackSamples == {"", "Yellow", "Viva La Vida"}
ResolveArtistSamples == {NoneStr, "Coldplay"}

TidalResolveCands ==
    { [id |-> 1, title |-> "Yellow", artists |-> <<"Coldplay">>],
      [id |-> 2, title |-> "YELLOW", artists |-> <<"Coldplay">>],
      [id |-> 3, title |-> "Yellow - Live", artists |-> <<"Other">>],
      [id |-> NoneId, title |-> "Viva la Vida", artists |-> <<"Coldplay">>],
      [id |-> 4, title |-> "Yellow", artists |-> <<NoneStr>>] }

YtResolveCands ==
    { [id |-> 1, title |-> "Yellow", channelTitle |-> "Coldplay", categoryId |-> "10"],
      [id |-> 2, title |-> "YELLOW", channelTitle |-> "Coldplay", categoryId |-> "10"],
      [id |-> 3, title |-> "Yellow - Live", channelTitle |-> "Other", categoryId |-> NoneStr],
      [id |-> NoneId, title |-> "Viva la Vida", channelTitle |-> "Coldplay", categoryId |-> NoneStr] }

InitResolve ==
    /\ sTrack \in ResolveTrackSamples
    /\ sArtist \in ResolveArtistSamples
    /\ sCand = [id |-> 1, title |-> NoneStr, artists |-> <<>>]
    /\ sResult = NoneId
    /\ rFound \in SeqsUpTo(TidalResolveCands, MaxFound) \cup SeqsUpTo(YtResolveCands, MaxFound)
    /\ rBest = NoBest
    /\ CacheIdle /\ AddIdle /\ SyncIdle /\ MigIdle /\ ApiIdle

\* An empty answer is served by either library.
IsTidalAnswer(found) == \A k \in 1..Len(found) : IsTidalCand(found[k])
IsYtAnswer(found) == \A k \in 1..Len(found) : ~IsTidalCand(found[k])

ResolveTidal ==
    /\ rBest = NoBest /\ IsTidalAnswer(rFound)
    /\ rBest' = TidalFindBestMatchWithScore(sTrack, sArtist, Answer(rFound))
    /\ UNCHANGED <<apiVars, sTrack, sArtist, sCand, sResult, rFound, cacheVars, addVars, syncVars, migVars>>

ResolveYouTube ==
    /\ rBest = NoBest /\ IsYtAnswer(rFound)
    /\ rBest' = YtFindBestMatchWithScore(sTrack, sArtist, Answer(rFound))
    /\ UNCHANGED <<apiVars, sTrack, sArtist, sCand, sResult, rFound, cacheVars, addVars, syncVars, migVars>>

NextResolve == ResolveTidal \/ ResolveYouTube

SpecResolve == InitResolve /\ [][NextResolve]_vars

\* The score the library gives candidate c of the answer for this call.
AnswerScore(c) ==
    IF IsTidalCand(c) THEN TidalScoreCandidate(OrEmpty(sTrack), sArtist, c)
    ELSE YtScoreCandidate(OrEmpty(sTrack), sArtist, c)

\* Position k holds the first candidate, in provider order, of maximal score.
FirstBest(k) ==
    /\ \A j \in 1..Len(rFound) : AnswerScore(rFound[j]) <= AnswerScore(rFound[k])
    /\ \A j \in 1..(k - 1) : AnswerScore(rFound[j]) < AnswerScore(rFound[k])

-----------------------------------------------------------------------------
(* The resolved-video cache of YouTubeMusicLibrary                          *)

SNIPPET_PENAL_WORDS == <<"cover", "karaoke", "remix", "instrumental", "live">>

\* YouTubeMusicLibrary._score_snippet on a search item's snippet.
ScoreSnippet(track, artist, snippet) ==
    LET title   == Norm(snippet.title)
        channel == Norm(snippet.channelTitle)
        nt      == Norm(track)
        na      == Norm(artist)
        base    == IF nt # "" /\ Contains(title, nt) THEN 55
                   ELSE Min(35, 7 * Hits(Tokens(nt, ""), title))
        art     == IF na # ""
                   THEN (IF Contains(title, na) THEN 20 ELSE 0)
                        + (IF Contains(channel, na) THEN 15 ELSE 0)
                   ELSE 0
    IN  Clamp(base + art - Penalty(SNIPPET_PENAL_WORDS, title, nt, 10))

\* YouTubeMusicLibrary._cache_key
CacheKey(track, artist) == Norm(track) \o "|||" \o Norm(artist)

\* search_tracks(track=, artist=): query = " - ".join(p for p in [track, artist] if p)
QueryOf(track, artist) ==
    IF TruthyStr(track) /\ TruthyStr(artist) THEN track \o " - " \o artist
    ELSE IF TruthyStr(track) THEN track
    ELSE OrEmpty(artist)

\* {"videoId": None, "score": 0, "title": None, "channel": None, "url": None}
NoVideo == [videoId |-> NoneId, score |-> 0, title |-> NoneStr, channel |-> NoneStr]

\* scored.sort(key=score, reverse=True); score, vid, sn = scored[0]
BestVideo(track, artist, items) ==
    LET scored == SortByScoreDesc([i \in 1..Len(items) |->
                      [id |-> items[i].id, title |-> items[i].title,
                       channelTitle |-> items[i].channelTitle,
                       _score |-> ScoreSnippet(track, artist, items[i])]])
    IN  IF Len(items) = 0 THEN NoVideo
        ELSE [videoId |-> scored[1].id, score |-> scored[1]._score,
              title |-> scored[1].title, channel |-> scored[1].channelTitle]

\* self._search_cache.get(key) / self._search_cache[key] = out
Cached(entries, key) == {e \in entries : e.key = key}
Store(entries, key, out) == {e \in entries : e.key # key} \cup {[key |-> key, out |-> out]}

\* What a call that went to the provider returns.
Searched(entries, key, out, use_cache) ==
    [out |-> out, cache |-> IF use_cache THEN Store(entries, key, out) ELSE entries,
     calls |-> 1, raised |-> FALSE]

\* YouTubeMusicLibrary.resolve_best_video on the cache entries and the provider
\* answers given (answers[query] = the items of the search for query).  The
\* result: the dict returned, the cache afterwards, the provider searches
\* issued, and whether search_tracks raised ValueError (no query parts).
ResolveWithKey(track, artist, use_cache, entries, answers, key) ==
    IF use_cache /\ Cached(entries, key) # {}
    THEN [out |-> (CHOOSE e \in Cached(entries, key) : TRUE).out, cache |-> entries,
          calls |-> 0, raised |-> FALSE]
    ELSE IF NoQueryParts(track, artist)
    THEN [out |-> NoVideo, cache |-> entries, calls |-> 0, raised |-> TRUE]
    ELSE Searched(entries, key, BestVideo(track, artist, answers[QueryOf(track, artist)]),
                  use_cache)

ResolveBestVideo(track, artist, use_cache, entries, answers) ==
    ResolveWithKey(track, artist, use_cache, entries, answers, CacheKey(track, artist))

MaxResolves == 2

CacheTrackSamples == {"Yellow", "YELLOW"}
CacheArtistSamples == {NoneStr, "Coldplay"}
CacheQueries == {QueryOf(t, a) : t \in CacheTrackSamples, a \in CacheArtistSamples}

\* What a search can answer (search items as /search returns them: no category).
CacheAnswers ==
    LET studio == [id |-> 1, title |-> "Yellow", channelTitle |-> "Coldplay",
                   categoryId |-> NoneStr]
        live   == [id |-> 2, title |-> "Yellow (Live)", channelTitle |-> "Coldplay",
                   categoryId |-> NoneStr]
    IN  {<<>>, <<studio>>, <<live, studio>>}

\* A provider whose search results do not change: one fixed answer per query.
InitCache ==
    /\ provider \in [CacheQueries -> CacheAnswers]
    /\ search_cache = {} /\ resolved = <<>> /\ searchCalls = 0
    /\ sTrack = "" /\ sArtist = NoneStr
    /\ sCand = [id |-> 1, title |-> NoneStr, artists |-> <<>>]
    /\ sResult = NoneId
    /\ rFound = <<>> /\ rBest = NoBest
    /\ AddIdle /\ SyncIdle /\ MigIdle /\ ApiIdle

CacheResolved(track, artist, r) ==
    /\ resolved' = Append(resolved, [track |-> track, artist |-> artist, out |-> r.out,
                                      raised |-> r.raised])
    /\ search_cache' = r.cache
    /\ searchCalls' = searchCalls + r.calls

\* One call resolve_best_video(track=, artist=, use_cache=True).
CacheResolve ==
    /\ Len(resolved) < MaxResolves
    /\ \E track \in CacheTrackSamples, artist \in CacheArtistSamples :
         CacheResolved(track, artist,
                       ResolveBestVideo(track, artist, TRUE, search_cache, provider))
    /\ UNCHANGED <<apiVars, provider, sTrack, sArtist, sCand, sResult, rFound, rBest,
                   addVars, syncVars, migVars>>

NextCache == CacheResolve

SpecCache == InitCache /\ [][NextCache]_vars

\* (id, score, title) of what resolve_best_video returned: the id is the
\* videoId string of the search item.
VideoTriple(r) ==
    [raised |-> r.raised,
     id     |-> IF r.out.videoId = NoneId THEN [kind |-> "none", videoId |-> NoneId]
                ELSE [kind |-> "str", videoId |-> r.out.videoId],
     score  |-> r.out.score, title |-> r.out.title]

\* (id, score, title) of what the cache-less path of
\* find_best_match_with_score returns: the id is the search item's id object.
FallbackTriple(b) ==
    [raised |-> b.raised,
     id     |-> IF b.id = NoneId THEN [kind |-> "none", videoId |-> NoneId]
                ELSE [kind |-> "dict", videoId |-> b.id],
     score  |-> b.score, title |-> b.title]

\* The k-th query resolved without the cache: by resolve_best_video with
\* use_cache=False, and by the fallback of find_best_match_with_score.
Uncached(k) ==
    VideoTriple(ResolveBestVideo(resolved[k].track, resolved[k].artist, FALSE, {}, provider))
Fallback(k) ==
    FallbackTriple(
        IF NoQueryParts(resolved[k].track, resolved[k].artist)
        THEN YtFindBestMatchWithScore(resolved[k].track, resolved[k].artist, Answer(<<>>))
        ELSE YtFindBestMatchWithScore(resolved[k].track, resolved[k].artist,
                 Answer(provider[QueryOf(resolved[k].track, resolved[k].artist)])))

\* C27: with a provider whose search results do not change, every query
\* resolved through the cache gets the same (id, score, title) as the same
\* query resolved without the cache; the cache changes only the number of
\* provider searches.
C27_CacheTransparent ==
    \A k \in 1..Len(resolved) :
        /\ VideoTriple(resolved[k]) = Uncached(k)
        /\ VideoTriple(resolved[k]) = Fallback(k)

\* The first query resolved with the key of the k-th one.
FirstWithKey(k) ==
    CHOOSE j \in 1..k :
        /\ CacheKey(resolved[j].track, resolved[j].artist)
              = CacheKey(resolved[k].track, resolved[k].artist)
        /\ \A m \in 1..(j - 1) :
              CacheKey(resolved[m].track, resolved[m].artist)
                # CacheKey(resolved[k].track, resolved[k].artist)

\* What holds: through the cache a query gets what resolve_best_video without
\* the cache returns for the first query resolved with the same normalized
\* key, and one provider search is issued per key.
C27_CacheServesFirstOfKey ==
    /\ \A k \in 1..Len(resolved) :
          ~resolved[k].raised => VideoTriple(resolved[k]) = Uncached(FirstWithKey(k))
    /\ searchCalls = Cardinality({CacheKey(resolved[k].track, resolved[k].artist) :
                                     k \in {j \in 1..Len(resolved) : ~resolved[j].raised}})

-----------------------------------------------------------------------------
(* The planning loop: one planned item per source track                    *)

\* The planned item and the bookkeeping of one pass, given what the resolver
\* returned (r).
Planned(name, artist, outcome, skip, r) ==
    [skipped  |-> skip,
     raised   |-> ~skip /\ r.raised,
     err      |-> IF skip \/ ~r.raised THEN "none"
                  ELSE IF ~r.searched THEN "ValueError"
                  ELSE IF outcome.error THEN "RuntimeError" ELSE "TypeError",
     searched |-> ~skip /\ r.searched,
     item     |-> [track |-> name, artist |-> artist, id |-> r.id, score |-> r.score,
                   title |-> r.title, artists |-> r.artists]]

Resolve(kind, name, artist, outcome) ==
    IF kind = "yt_playlist" THEN YtFindBestMatchWithScore(name, artist, outcome)
    ELSE TidalFindBestMatchWithScore(name, artist, outcome)

PlanNamed(kind, name, artist, outcome) ==
    Planned(name, artist, outcome, kind = "tidal_plan" /\ name = "",
            Resolve(kind, name, artist, outcome))

\* (s.get("artist") or "").strip() or None
StripOrNone(s) == IF s = "" THEN NoneStr ELSE s

\* One pass of the planning loop on the source track t ([name, artists], artists
\* the list of artist names).  "tidal_plan" is TidalLibrary.plan_tracks_by_metadata,
\* which reads t as {track, artist} and leaves out a track whose title is empty.
PlanTrack(kind, t, outcome) ==
    PlanNamed(kind,
              IF kind = "yt_playlist" THEN YtPlanName(t.name)
              ELSE IF kind = "tidal_plan" THEN Strip(OrEmpty(t.name))
              ELSE TidalPlanName(t.name),
              IF kind = "tidal_plan" THEN StripOrNone(Strip(OrEmpty(FirstArtist(t.artists))))
              ELSE FirstArtist(t.artists),
              outcome)

\* TidalLibrary.check_playlist is called by migrate_playlist but defined nowhere
\* in the sources; modelled as the existence test the design describes.
CheckPlaylist == destExists

MaxTracks == 2
PlaylistName == "Road Mix"

TrackRefSamples ==
    { [name |-> "Yellow (Remastered 2009)", artists |-> <<"Coldplay">>],
      [name |-> "Fix You --2005-- (Live)", artists |-> <<"Coldplay">>],
      [name |-> "", artists |-> <<>>],
      [name |-> " (Intro) ", artists |-> <<NoneStr>>],
      [name |-> NoneStr, artists |-> <<"Coldplay", "Muse">>],
      [name |-> "Yellow", artists |-> <<>>] }

TidalFound ==
    { <<>>,
      <<[id |-> 1, title |-> "Yellow", artists |-> <<"Coldplay">>]>>,
      <<[id |-> NoneId, title |-> "Yellow", artists |-> <<>>]>>,
      <<[id |-> 2, title |-> "Yellow", artists |-> <<>>]>>,
      <<[id |-> 2, title |-> "Yellow (Live Cover)", artists |-> <<"Other">>],
        [id |-> 1, title |-> "yellow", artists |-> <<"Coldplay">>]>> }

YtFound ==
    { <<>>,
      <<[id |-> 1, title |-> "Yellow", channelTitle |-> "Coldplay", categoryId |-> "10"]>>,
      <<[id |-> NoneId, title |-> "Yellow", channelTitle |-> NoneStr, categoryId |-> NoneStr]>>,
      <<[id |-> 2, title |-> "Yellow", channelTitle |-> NoneStr, categoryId |-> NoneStr]>>,
      <<[id |-> 2, title |-> "Yellow (Live Cover)", channelTitle |-> "Other", categoryId |-> NoneStr],
        [id |-> 1, title |-> "yellow", channelTitle |-> "Coldplay", categoryId |-> "10"]>> }

\* The answers a provider search can give: it fails, or it returns candidates.
SearchOutcomes(kind) ==
    {SearchFails} \cup {Answer(f) : f \in (IF kind = "yt_playlist" THEN YtFound ELSE TidalFound)}
           \cup (IF kind = "yt_playlist" THEN {}
                 ELSE {Answer(<<[id |-> 1, title |-> "Yellow", artists |-> <<NoneStr>>]>>)})

MigFresh ==
    /\ migErr = "none" /\ tPos = 0 /\ plan = <<>> /\ searches = 0
    /\ pending_manual_ids = <<>> /\ insertCalls = <<>> /\ migCalls = <<>>
    /\ prompts = <<>> /\ skipLog = <<>> /\ logTried = 0 /\ logFailed = 0 /\ branches = <<>>
    /\ manualTyped = <<>> /\ inputs = <<>> /\ sessionSearches = 0 /\ destGets = <<>>

InitPlan ==
    /\ mig \in {"tidal_playlist", "tidal_liked", "yt_playlist", "tidal_plan"}
    /\ migPc = "start"
    /\ PASAR_CANCIONES \in (IF mig = "tidal_playlist" THEN {"", "a"} ELSE {"a"})
    /\ score_threshold = 70 /\ migAvoid = TRUE
    /\ tracks \in SeqsUpTo(TrackRefSamples, MaxTracks)
    /\ destExists \in (IF mig \in {"tidal_playlist", "yt_playlist"} THEN BOOLEAN
                       ELSE {mig = "tidal_liked"})
    /\ destPl = <<>>
    /\ MigFresh
    /\ ScoreIdle /\ AddIdle /\ SyncIdle /\ ApiIdle

\* The test of the track list left out: the loop over no track ends at once.
AfterTracksReadNoReturn(kind, source_tracks) ==
    IF Len(source_tracks) = 0 THEN "planned" ELSE "plan"

\* "if not tracks: print("(vacia)"); return" of the migrators;
\* plan_tracks_by_metadata has no such test and returns the empty plan.
AfterTracksRead(kind, source_tracks) ==
    IF Len(source_tracks) = 0 THEN (IF kind = "tidal_plan" THEN "planned" ELSE "done")
    ELSE "plan"

\* The start of migrate_playlist / migrate_liked_songs up to the planning loop:
\* the Tidal playlist migrator first asks check_playlist and leaves when the
\* playlist exists and PASAR_CANCIONES is "a" or the user answers "s"; an empty
\* track list ends the migration.
MigStart ==
    /\ migPc = "start"
    /\ \E answer \in {"a", "S"} :
         LET asks   == mig = "tidal_playlist" /\ CheckPlaylist /\ PASAR_CANCIONES # "a"
             leaves == mig = "tidal_playlist" /\ CheckPlaylist
                       /\ (PASAR_CANCIONES = "a" \/ Lower(answer) = "s")
         IN  /\ prompts' = IF asks THEN Append(prompts, [at |-> 0, kind |-> "playlist"])
                           ELSE prompts
             /\ migPc' = IF leaves THEN "done" ELSE AfterTracksRead(mig, tracks)
    /\ UNCHANGED <<apiVars, sessionSearches, destGets, mig, migErr, PASAR_CANCIONES, score_threshold, migAvoid, tracks, tPos,
                   plan, searches, destExists, destPl, pending_manual_ids, insertCalls,
                   migCalls, skipLog, logTried, logFailed, branches, manualTyped, inputs, scoreVars, addVars, syncVars>>

ApplyPlanned(p) ==
    /\ tPos' = tPos + 1
    /\ searches' = searches + (IF p.searched THEN 1 ELSE 0)
    /\ plan' = IF p.skipped \/ p.raised THEN plan ELSE Append(plan, p.item)
    /\ migErr' = p.err
    /\ migPc' = IF p.raised THEN "raised"
                ELSE IF tPos + 1 = Len(tracks) THEN "planned" ELSE "plan"

\* What the session.search calls of one TidalUserClient.search_tracks call meet,
\* in the order the code tries them: SearchType.TRACKS with offset=, the same
\* with top_level= (tried when the first raised TypeError), the string
\* "tracks", and models=[Track].  "absent" stands for a tidalapi build without
\* SearchType, or without Track: that form is not tried.
SessionAttempts ==
    {att \in [1..4 -> {"ok", "TypeError", "Exception", "absent"}] :
        /\ att[2] \in {"ok", "Exception"} /\ att[3] \in {"ok", "Exception"}
        /\ att[4] # "TypeError"}

\* TidalUserClient.search_tracks up to "if res is None: raise RuntimeError":
\* every exception of a form is swallowed and the next form is tried, so one
\* call sends between one and four search requests.
ClientSearchTracks(att) ==
    LET n1 == IF att[1] = "absent" THEN 0 ELSE IF att[1] = "TypeError" THEN 2 ELSE 1
        r1 == att[1] = "ok" \/ (att[1] = "TypeError" /\ att[2] = "ok")
        n4 == IF att[4] = "absent" THEN 0 ELSE 1
    IN  IF r1 THEN [requests |-> n1, raised |-> FALSE]
        ELSE IF att[3] = "ok" THEN [requests |-> n1 + 1, raised |-> FALSE]
        ELSE [requests |-> n1 + 1 + n4, raised |-> att[4] # "ok"]

\* What one TidalUserClient.search_tracks call can come to.
ClientSearchResults == {ClientSearchTracks(att) : att \in SessionAttempts}

\* One pass of the planning loop, the answer to its search known: the search
\* raised when no form of the request got through.
PlanWith(p, outcome) ==
    /\ ApplyPlanned(p)
    /\ \E c \in ClientSearchResults :
         /\ c.raised = outcome.error
         /\ sessionSearches' = sessionSearches +
                (IF p.searched /\ mig # "yt_playlist" THEN c.requests ELSE 0)

\* One pass of the planning loop.  No pass catches an exception, so a resolver
\* that raises ends the migration with no plan.
PlanStep ==
    /\ migPc = "plan"
    /\ \E outcome \in SearchOutcomes(mig) :
         PlanWith(PlanTrack(mig, tracks[tPos + 1], outcome), outcome)
    /\ UNCHANGED <<apiVars, destGets, mig, PASAR_CANCIONES, score_threshold, migAvoid, tracks, destExists,
                   destPl, pending_manual_ids, insertCalls, migCalls, prompts, skipLog,
                   logTried, logFailed, branches, manualTyped, inputs, scoreVars, addVars, syncVars>>

NextPlan == MigStart \/ PlanStep

SpecPlan == InitPlan /\ [][NextPlan]_vars

\* C9: for every input track list, tracks with an empty title included, planning
\* never fails on a track and ends with exactly one planned item per input
\* track, in the input order.
C9_OnePlannedItemPerTrack ==
    /\ ~(migPc = "raised" /\ migErr = "ValueError")
    /\ migPc = "planned" =>
          /\ Len(plan) = Len(tracks)
          /\ \A i \in 1..Len(plan) :
                plan[i].track = PlanTrack(mig, tracks[i], SearchFails).item.track

\* A title still carries a parenthesized group or a --...-- marker.
HasMarker(s) == StripMarkers(s) # s

Migrators == {"tidal_playlist", "tidal_liked", "yt_playlist"}

\* C14: in each migrator's planning step the string handed to the resolver has
\* every parenthesized suffix and every --...-- marker removed, and for the
\* title "Yellow (Remastered 2009)" it is exactly "Yellow".
C14_TitleCleanedBeforeResolve ==
    mig \in Migrators =>
        \A i \in 1..Len(plan) :
            /\ ~HasMarker(plan[i].track)
            /\ tracks[i].name = "Yellow (Remastered 2009)" => plan[i].track = "Yellow"

\* What the two Tidal planners do keep: no marker is left in the string they
\* search, and "Yellow (Remastered 2009)" is searched as "Yellow " (the blank
\* before the parenthesis stays), which the scorer normalizes to "yellow".
C14_TidalMarkersRemoved ==
    mig \in {"tidal_playlist", "tidal_liked"} =>
        \A i \in 1..Len(plan) :
            /\ ~HasMarker(plan[i].track)
            /\ tracks[i].name = "Yellow (Remastered 2009)" =>
                  (plan[i].track = "Yellow " /\ Norm(plan[i].track) = "yellow")

\* C16: when the provider search raises for one track during planning, that
\* track becomes an unresolved planned item (id None, score 0) and planning
\* goes on with the next track; the migration is not ended by the error.
C16_SearchErrorYieldsUnresolved ==
    (mig \in Migrators /\ migErr = "RuntimeError") =>
        /\ migPc \in {"plan", "planned"}
        /\ Len(plan) = tPos
        /\ plan[tPos].id = NoneId /\ plan[tPos].score = 0

\* The migration of a playlist whose name the destination account already has,
\* under the default policy (PASAR_CANCIONES as shipped: no prompt).
ExistingByDefault ==
    mig \in {"tidal_playlist", "yt_playlist"} /\ destExists /\ PASAR_CANCIONES = "a"

\* The migration ended at once and returned to run(): nothing searched, planned,
\* created, inserted, asked or logged.
SkippedWhole ==
    /\ migPc \in {"start", "done"} /\ migErr = "none"
    /\ searches = 0 /\ plan = <<>> /\ tPos = 0
    /\ insertCalls = <<>> /\ migCalls = <<>> /\ prompts = <<>> /\ skipLog = <<>>

\* C22: when a destination playlist with the name of the source playlist
\* exists, the playlist migrator under its default policy skips the whole
\* playlist: no search, no playlist created, no insert call, no skip-log
\* record, and the call returns so that the run goes on with the next playlist.
C22_ExistingPlaylistSkipped ==
    ExistingByDefault => SkippedWhole

\* What holds: the Tidal playlist migrator skips the existing playlist.
C22_TidalExistingSkipped ==
    (ExistingByDefault /\ mig = "tidal_playlist") => SkippedWhole

-----------------------------------------------------------------------------
(* The decision loop run on a finished plan                                 *)

ThresholdSamples == {0, 55, 70}
\* The values of the module variable PASAR_CANCIONES: empty (ask for every
\* item), "a" as shipped, and the other action letters.
ForcedSamples == {"", "a", "s", "u", "l"}
SourceTrack == [name |-> "Yellow", artists |-> <<"Coldplay">>]

ManualSamples(kind) ==
    IF kind = "yt_playlist" THEN {"", "nope", "https://youtu.be/dQw4w9WgXcQ"}
    ELSE {"", "abc", " 2 ", "https://tidal.com/browse/track/1", "0", "12a",
          "tidal.com/track/x"}

PickSamples == {"", "x", "0", "-1", "1", "2", "3"}

ListOutcomes(kind) ==
    {SearchFails} \cup
    (IF kind = "yt_playlist"
     THEN {Answer(<<>>),
           Answer(<<[id |-> NoneId, title |-> "Yellow", channelTitle |-> NoneStr, categoryId |-> NoneStr],
                    [id |-> 2, title |-> "Yellow (Live Cover)", channelTitle |-> "Other", categoryId |-> NoneStr]>>)}
     ELSE {Answer(<<>>),
           Answer(<<[id |-> NoneId, title |-> "Yellow", artists |-> <<>>],
                    [id |-> 2, title |-> "Yellow (Live Cover)", artists |-> <<"Other">>]>>)})

\* What the environment can supply while one item is processed.
DecisionInputs(kind) ==
    [action : {"a", "S"}, manual : {""}, found : {SearchFails}, pick : {""}, fail : 0..1]
    \cup [action : {"U"}, manual : ManualSamples(kind), found : {SearchFails}, pick : {""},
          fail : {0}]
    \cup [action : {"l"}, manual : {""}, found : ListOutcomes(kind), pick : PickSamples,
          fail : 0..1]

\* The provider answers behind the plans the decision loop is run on: nothing
\* found (N), a confident match (H), a candidate without id (Z), a match whose
\* score is 55 (B); one track, or two tracks.
AnswerSeqs(kind) ==
    LET found(id, artist) ==
            IF kind = "yt_playlist"
            THEN <<[id |-> id, title |-> "Yellow", channelTitle |-> artist,
                    categoryId |-> IF artist = NoneStr THEN NoneStr ELSE "10"]>>
            ELSE <<[id |-> id, title |-> "Yellow",
                    artists |-> IF artist = NoneStr THEN <<>> ELSE <<artist>>]>>
        N == <<>>
        H == found(1, "Coldplay")
        Z == found(NoneId, NoneStr)
        B == found(2, NoneStr)
    IN  {<<N>>, <<H>>, <<Z>>, <<B>>, <<B, B>>, <<N, Z>>, <<B, H>>}

\* The state migrate_playlist / migrate_liked_songs is in when its planning loop
\* has ended: every track resolved against some provider answer.
InitMig ==
    /\ mig \in {"tidal_playlist", "tidal_liked", "yt_playlist"}
    /\ migPc = "planned" /\ migErr = "none"
    /\ PASAR_CANCIONES \in (IF mig = "yt_playlist" THEN {"a"} ELSE ForcedSamples)
    /\ score_threshold \in ThresholdSamples
    /\ migAvoid \in (IF mig = "yt_playlist" THEN {TRUE} ELSE BOOLEAN)
    /\ \E f \in AnswerSeqs(mig) :
         /\ tracks = [i \in 1..Len(f) |-> SourceTrack]
         /\ plan = [i \in 1..Len(f) |-> PlanTrack(mig, SourceTrack, Answer(f[i])).item]
         /\ tPos = Len(f) /\ searches = Len(f)
         /\ sessionSearches = (IF mig = "yt_playlist" THEN 0 ELSE Len(f))
    /\ destExists \in (IF mig = "tidal_liked" THEN {TRUE}
                       ELSE IF mig = "tidal_playlist" /\ PASAR_CANCIONES = "a" THEN {FALSE}
                       ELSE BOOLEAN)
    /\ destPl \in (IF mig = "tidal_liked" THEN {<<>>, <<1>>}
                   ELSE IF destExists THEN {<<1>>} ELSE {<<>>})
    /\ pending_manual_ids = <<>> /\ insertCalls = <<>> /\ migCalls = <<>>
    /\ prompts = <<>> /\ skipLog = <<>> /\ logTried = 0 /\ logFailed = 0 /\ branches = <<>>
    /\ manualTyped = <<>> /\ inputs = <<>> /\ destGets = <<>>
    /\ ScoreIdle /\ AddIdle /\ SyncIdle /\ ApiIdle

\* get_or_create_playlist called twice in a row.
MigCreateTwice ==
    /\ migPc = "planned" /\ mig # "tidal_plan"
    /\ destExists' = TRUE
    /\ destGets' = IF mig = "tidal_liked" THEN destGets
                   ELSE destGets \o <<[resolved |-> tPos, inserts |-> Len(insertCalls)],
                                    [resolved |-> tPos, inserts |-> Len(insertCalls)]>>
    /\ migPc' = "decide"
    /\ UNCHANGED <<apiVars, sessionSearches, mig, migErr, PASAR_CANCIONES, score_threshold, migAvoid, tracks, tPos,
                   plan, searches, destPl, pending_manual_ids, insertCalls, migCalls,
                   prompts, skipLog, logTried, logFailed, branches, manualTyped, inputs, scoreVars, addVars, syncVars>>

\* get_or_create_playlist after the planning loop (the liked songs go to the
\* favourites, which need no playlist): from here on the destination exists.
MigCreate ==
    /\ migPc = "planned" /\ mig # "tidal_plan"
    /\ destExists' = TRUE
    /\ destGets' = IF mig = "tidal_liked" THEN destGets
                   ELSE Append(destGets, [resolved |-> tPos, inserts |-> Len(insertCalls)])
    /\ migPc' = "decide"
    /\ UNCHANGED <<apiVars, sessionSearches, mig, migErr, PASAR_CANCIONES, score_threshold, migAvoid, tracks, tPos,
                   plan, searches, destPl, pending_manual_ids, insertCalls, migCalls,
                   prompts, skipLog, logTried, logFailed, branches, manualTyped, inputs, scoreVars, addVars, syncVars>>

\* The skip writer with its handler left out: a failing write raises.
LogSkippedTrackRaises(writeFails) == [written |-> ~writeFails, raised |-> writeFails]

\* _log_skipped_track: mkdir, open and write all sit inside try/except
\* Exception, which prints a warning; the call never raises.
LogSkippedTrack(writeFails) == [written |-> ~writeFails, raised |-> FALSE]

\* One pass of the decision loop on the next planned item.  _log_skipped_track
\* swallows a failing write, so the record may be missing after a skip.
ApplyDecision(i, item, o, typed) ==
    /\ branches' = Append(branches, o.branch)
    /\ manualTyped' = Append(manualTyped, IF o.branch \in {"manual", "manual_invalid"}
                                          THEN typed ELSE NoneStr)
    /\ insertCalls' = insertCalls \o [k \in 1..Len(o.ins) |-> [at |-> i, ids |-> o.ins[k]]]
    /\ destPl' = o.content
    /\ migCalls' = migCalls \o o.calls
    /\ prompts' = prompts \o [k \in 1..Len(o.asked) |-> [at |-> i, kind |-> o.asked[k]]]
    /\ pending_manual_ids' = pending_manual_ids \o o.manual
    /\ searches' = searches + o.searched
    /\ logTried' = logTried + (IF o.log THEN 1 ELSE 0)
    /\ \E writeFails \in (IF o.log THEN BOOLEAN ELSE {FALSE}) :
         LET w == LogSkippedTrack(writeFails)
         IN  /\ skipLog' = IF o.log /\ w.written
                           THEN Append(skipLog, SkipRecord(PlaylistName, item))
                           ELSE skipLog
             /\ logFailed' = logFailed + (IF writeFails THEN 1 ELSE 0)
             /\ migErr' = IF o.raised THEN "Exception"
                          ELSE IF o.log /\ w.raised THEN "OSError" ELSE "none"
             /\ migPc' = IF o.raised \/ (o.log /\ w.raised) THEN "raised"
                         ELSE IF i = Len(plan) THEN "flush" ELSE "decide"

\* What the pass took from the environment: the text typed at each prompt it
\* showed, the answer to the search it issued, the outcome of the insert it
\* called; what it did not ask for is left at its default.
Consumed(inp, o) ==
    LET asked(kind) == \E k \in 1..Len(o.asked) : o.asked[k] = kind
    IN  [action |-> IF asked("action") THEN inp.action ELSE "",
         manual |-> IF asked("manual") THEN inp.manual ELSE "",
         found  |-> IF o.searched > 0 THEN inp.found ELSE SearchFails,
         pick   |-> IF asked("pick") THEN inp.pick ELSE "",
         fail   |-> IF Len(o.ins) > 0 THEN inp.fail ELSE 0]

DecideWith(i, item, inp, o) ==
    /\ ApplyDecision(i, item, o, inp.manual)
    /\ inputs' = Append(inputs, Consumed(inp, o))

MigDecide ==
    /\ migPc = "decide"
    /\ \E inp \in DecisionInputs(mig) :
         DecideWith(Len(branches) + 1, plan[Len(branches) + 1], inp,
                    DecideItem(mig, plan[Len(branches) + 1], destPl, migAvoid,
                               score_threshold, PASAR_CANCIONES, inp))
    /\ UNCHANGED <<apiVars, sessionSearches, destGets, mig, PASAR_CANCIONES, score_threshold, migAvoid, tracks, tPos, plan,
                   destExists, scoreVars, addVars, syncVars>>

\* After the loop the Tidal migrators send the buffered manual ids in one insert
\* call, if there are any.
MigFlush ==
    /\ migPc = "flush"
    /\ \E fail \in 0..Len(pending_manual_ids) :
         LET r     == Flush(mig, destPl, pending_manual_ids, migAvoid, fail)
             calls == Len(pending_manual_ids) > 0 /\ mig # "yt_playlist"
         IN  /\ insertCalls' = IF calls
                               THEN Append(insertCalls, [at |-> 0, ids |-> pending_manual_ids])
                               ELSE insertCalls
             /\ destPl' = r.content
             /\ migCalls' = migCalls \o r.calls
             /\ migErr' = IF r.raised THEN "RuntimeError" ELSE "none"
             /\ migPc' = IF r.raised THEN "raised" ELSE "done"
    /\ UNCHANGED <<apiVars, sessionSearches, destGets, mig, PASAR_CANCIONES, score_threshold, migAvoid, tracks, tPos, plan,
                   searches, destExists, pending_manual_ids, prompts, skipLog, logTried, logFailed,
                   branches, manualTyped, inputs, scoreVars, addVars, syncVars>>

NextMig == MigCreate \/ MigDecide \/ MigFlush

SpecMig == InitMig /\ [][NextMig]_vars

\* The items processed so far, and how many of them took a branch of a set.
Processed == 1..Len(branches)
CountBranches(B) == Cardinality({i \in Processed : branches[i] \in B})
InsertsAt(i) == {k \in 1..Len(insertCalls) : insertCalls[k].at = i}
PromptsAt(i) == {k \in 1..Len(prompts) : prompts[k].at = i}
Prompted == mig = "yt_playlist" \/ PASAR_CANCIONES = ""

\* The branches that end an item with nothing inserted and nothing buffered.
NotInserted == {"skip", "manual_invalid", "list_empty", "list_none", "list_invalid", "list_noid"}

\* C5: in all three decision loops a planned item whose resolved id is null is
\* never auto-accepted, whatever its score and the threshold (0 included); it
\* goes to the decision path: the action prompt, or the forced action.
C5_NullIdNeverAutoAccepted ==
    \A i \in Processed :
        plan[i].id = NoneId =>
            /\ branches[i] # "auto"
            /\ Prompted => \E k \in PromptsAt(i) : prompts[k].kind = "action"

\* An item without id whose score reaches the threshold has been processed and
\* ended in the skip branch.
C5_Witness ==
    \E i \in Processed :
        /\ plan[i].id = NoneId /\ plan[i].score > 0 /\ plan[i].score >= score_threshold
        /\ branches[i] = "skip"

\* C6: a planned item with a non-null id and a score at or above the threshold
\* takes the auto-accept branch: exactly one insert call, for that id, issued
\* while the item is processed, and no prompt for that item.
C6_AutoAcceptOneInsert ==
    \A i \in Processed :
        (TruthyId(plan[i].id) /\ plan[i].score >= score_threshold) =>
            /\ branches[i] = "auto"
            /\ Cardinality(InsertsAt(i)) = 1
            /\ \A k \in InsertsAt(i) : insertCalls[k].ids = <<plan[i].id>>
            /\ PromptsAt(i) = {}

\* The Tidal playlist migrator has auto-accepted an item whose score equals the
\* threshold.
C6_Witness ==
    /\ mig = "tidal_playlist" /\ PASAR_CANCIONES = ""
    /\ \E i \in Processed :
         /\ TruthyId(plan[i].id) /\ plan[i].score = score_threshold
         /\ branches[i] = "auto"
         /\ \E k \in InsertsAt(i) : insertCalls[k].ids = <<plan[i].id>>

C17_InsertFailureContinues ==
    migPc = "raised" =>
        /\ migErr # "RuntimeError"
        /\ Len(branches) > 0 /\ InsertsAt(Len(branches)) = {}

\* The branches that end with an id inserted or queued for the flush.
InsertBranches == {"auto", "accept", "manual", "listed"}
WithoutId == {i \in Processed : branches[i] \notin InsertBranches}

\* C19: every planned item is visited exactly once by the decision loop and
\* ends in exactly one outcome: an id inserted or queued, or a skip event
\* recorded (a call of the skip writer); never both, never neither.
C19_ExactlyOneOutcome ==
    /\ migPc \in {"flush", "done", "raised"} => Len(branches) = Len(plan)
    /\ logTried = Cardinality(WithoutId)

\* What the loops do keep: no item is visited twice, an item that gets an id
\* gets no skip event, and every skip event belongs to an item without an id.
C19_AtMostOnceNeverBoth ==
    /\ Len(branches) <= Len(plan)
    /\ logTried <= Cardinality(WithoutId)
    /\ \A i \in Processed : InsertsAt(i) # {} => branches[i] # "skip"

\* What the user typed is a bare numeric string, or holds a Tidal track url
\* (".../track/<digits>", with or without "browse/").
IsBareNumeric(typed) == IsDigitStr(Strip(typed))
HoldsTrackUrl(typed) ==
    \E k \in 1..Len(typed) :
        \E core \in {"tidal.com/track/", "tidal.com/browse/track/"} :
            /\ StartsAt(Lower(typed), k, core)
            /\ k + Len(core) <= Len(typed)
            /\ IsDigit(CharAt(typed, k + Len(core)))

\* The passes of the Tidal loops in which the manual prompt got invalid input.
InvalidManual ==
    {i \in Processed : /\ mig \in {"tidal_playlist", "tidal_liked"}
                       /\ manualTyped[i] # NoneStr
                       /\ ~IsBareNumeric(manualTyped[i])
                       /\ ~HoldsTrackUrl(manualTyped[i])}

\* C20: manual input that is neither a track url nor a bare numeric string
\* (empty input included) is a no-op: no insert call is made for the item, no
\* id is queued for it, no exception leaves the loop in that pass, and the
\* loop goes on to the next item (after the last one, to the flush of the ids
\* queued by other items).
C20_InvalidManualIsNoOp ==
    /\ \A i \in InvalidManual :
          /\ branches[i] = "manual_invalid"
          /\ InsertsAt(i) = {}
          /\ Len(branches) = i =>
                IF i < Len(plan) THEN migPc = "decide"
                ELSE migPc \in {"flush", "done"} \/ migErr = "RuntimeError"
    /\ mig \in {"tidal_playlist", "tidal_liked"} =>
          Len(pending_manual_ids) = Cardinality({i \in Processed : branches[i] = "manual"})

\* Invalid input typed for the first of two items, and the loop went on to the
\* second.
C20_Witness ==
    /\ mig = "tidal_playlist" /\ Len(plan) = 2 /\ Len(branches) = 2
    /\ 1 \in InvalidManual /\ manualTyped[1] = "12a"
    /\ pending_manual_ids = <<>> /\ insertCalls = <<>>

\* The options the list branch showed in pass i, and whether it asked for a pick.
OptsAt(i) ==
    IF mig = "yt_playlist"
    THEN PreviewSearch(plan[i].track, plan[i].artist, inputs[i].found).opts
    ELSE PreviewSearchTidal(plan[i].track, plan[i].artist, inputs[i].found).opts
PickAsked(i) == \E k \in PromptsAt(i) : prompts[k].kind = "pick"

\* pick names one of the n options listed: a number between 1 and n.
InRange(pick, n) == IsDigitStr(pick) /\ DigitsToInt(pick) \in 1..n

\* The passes in which the selection typed was not the number of an option.
BadPicks == {i \in Processed : PickAsked(i) /\ ~InRange(Strip(inputs[i].pick), Len(OptsAt(i)))}

\* The exception of pass i left the decision loop.
RaisedAt(i) == Len(branches) = i /\ migPc = "raised" /\ migErr = "Exception"

\* C21: with n candidates listed, a selection that is not numeric or is a
\* number outside 1..n (0 and negative numbers included) degrades to skip:
\* nothing is inserted for the item and no exception leaves the loop.
C21_BadPickSkips ==
    \A i \in BadPicks :
        /\ InsertsAt(i) = {}
        /\ branches[i] \in NotInserted
        /\ ~RaisedAt(i)

\* What the loops do keep: a selection that is not a number, or is a number
\* above n or below -n, inserts nothing and raises nothing.
C21_FarPickSkips ==
    \A i \in BadPicks :
        PickedPosition(Strip(inputs[i].pick), Len(OptsAt(i))) = 0 =>
            /\ InsertsAt(i) = {} /\ branches[i] \in NotInserted /\ ~RaisedAt(i)

\* The branches of the manual-id and list-alternatives actions.
ManualOrList ==
    {"manual", "manual_invalid", "listed", "list_empty", "list_none", "list_invalid",
     "list_noid"}
EnteredManualOrList ==
    \/ \E i \in Processed : branches[i] \in ManualOrList
    \/ searches > Len(plan)

\* C23: when PASAR_CANCIONES is non-empty, every low-confidence item gets the
\* forced action with no prompt shown, and the manual-id and list-alternatives
\* branches are never entered.
C23_ForcedNoPromptNoManualList ==
    (mig \in {"tidal_playlist", "tidal_liked"} /\ PASAR_CANCIONES # "") =>
        /\ prompts = <<>>
        /\ ~EnteredManualOrList

\* What holds: with PASAR_CANCIONES = "a" (as shipped) or "s" no prompt is
\* shown and every item that is not auto-accepted is accepted or skipped.
C23_AcceptOrSkipForced ==
    (mig \in {"tidal_playlist", "tidal_liked"} /\ PASAR_CANCIONES \in {"a", "s"}) =>
        /\ prompts = <<>>
        /\ ~EnteredManualOrList
        /\ \A i \in Processed : branches[i] \in {"auto", "accept", "skip"}

\* The action pass i acted on: the answer typed at the action prompt, lowered,
\* or the forced one; none for an item that was auto-accepted.
ActionAt(i) ==
    IF branches[i] = "auto" THEN NoneStr
    ELSE IF Prompted THEN Lower(inputs[i].action)
    ELSE PASAR_CANCIONES

\* C24: accept-suggested inserts an id only when the item's resolved id is
\* non-null; when accept is answered (or forced) for an item whose resolved id
\* is null, no insert call is made for the item and it ends as skipped.
C24_AcceptNeedsId ==
    \A i \in Processed :
        /\ branches[i] = "accept" =>
              /\ plan[i].id # NoneId /\ ActionAt(i) = "a"
              /\ Cardinality(InsertsAt(i)) = 1
              /\ \A k \in InsertsAt(i) : insertCalls[k].ids = <<plan[i].id>>
        /\ (ActionAt(i) = "a" /\ plan[i].id = NoneId) =>
              /\ InsertsAt(i) = {}
              /\ branches[i] = "skip"
              /\ ~RaisedAt(i)

\* The user answered "a" for an item nothing was resolved for: no insert call,
\* and the Tidal playlist loop wrote its skip record.
C24_Witness ==
    /\ mig = "tidal_playlist" /\ PASAR_CANCIONES = "" /\ migPc = "done"
    /\ Len(plan) = 1 /\ plan[1].id = NoneId
    /\ ActionAt(1) = "a" /\ branches = <<"skip">>
    /\ insertCalls = <<>> /\ logTried = 1

\* What pass i of the loop of a migrator does on the item and the inputs of
\* pass i (the insert calls and the branch do not depend on the destination).
OutcomeAt(kind, i) ==
    DecideItem(kind, plan[i], <<>>, migAvoid, score_threshold, PASAR_CANCIONES, inputs[i])

\* The ids of the insert calls made in pass i, in order.
CallsAt(i) ==
    LET made == SelectSeq(insertCalls, LAMBDA c : c.at = i)
    IN  [k \in 1..Len(made) |-> made[k].ids]

\* C25: a failing write of the skip log is caught and never aborts the run:
\* the pass ends like any skip, the loop goes on with the next item, and the
\* insert calls of every pass are the ones the plan and the decisions give,
\* whether or not a write failed.
C25_LogFailureNeverAborts ==
    /\ [][logFailed' > logFailed =>
            /\ migErr' = "none"
            /\ migPc' = (IF Len(branches') = Len(plan) THEN "flush" ELSE "decide")
            /\ Len(branches') = Len(branches) + 1
            /\ insertCalls' = insertCalls /\ destPl' = destPl
            /\ pending_manual_ids' = pending_manual_ids]_vars
    /\ [](logFailed > 0 => \A i \in Processed : CallsAt(i) = OutcomeAt(mig, i).ins)

\* The write failed for the first item, skipped by the user, and the second
\* item was auto-accepted after it.
C25_Witness ==
    /\ mig = "tidal_playlist" /\ PASAR_CANCIONES = "" /\ migPc = "done"
    /\ branches = <<"skip", "auto">>
    /\ logTried = 1 /\ logFailed = 1 /\ skipLog = <<>>
    /\ CallsAt(2) = <<<<plan[2].id>>>>

\* Two passes end alike: the same ids inserted at once, the same id buffered
\* for the flush, the same skip event recorded.
SameOutcome(p, f) == p.ins = f.ins /\ p.manual = f.manual /\ p.log = f.log

\* C26: on the same plan and the same decisions the liked-songs migration ends
\* every item as the playlist migration does: the same ids inserted
\* immediately, the same ids buffered for the flush, the same skip events
\* recorded in the skip log.
C26_LikedSameAsPlaylist ==
    mig \in {"tidal_playlist", "tidal_liked"} =>
        \A i \in Processed :
            SameOutcome(OutcomeAt("tidal_playlist", i), OutcomeAt("tidal_liked", i))

\* Two passes agree in what they ask, in the id they buffer and, unless the
\* liked-songs pass picked a listed option (which the playlist pass never
\* inserts), in the branch and the insert call.
SameButList(p, f) ==
    /\ p.asked = f.asked /\ p.manual = f.manual /\ p.searched = f.searched
    /\ IF f.branch \in {"listed", "list_invalid"}
       THEN p.branch = "list_invalid" /\ p.ins = <<>>
       ELSE p.branch = f.branch /\ p.ins = f.ins
    /\ p.log = (f.branch = "skip") /\ ~f.log

\* What holds: the two loops differ in the skip log, which only the playlist
\* loop writes, and in the insert of a listed option.
C26_SameButLogAndList ==
    mig \in {"tidal_playlist", "tidal_liked"} =>
        \A i \in Processed :
            SameButList(OutcomeAt("tidal_playlist", i), OutcomeAt("tidal_liked", i))

\* The id pass i took from the user: the one parsed from the text typed at the
\* manual prompt, or the id of the option whose number was typed at the pick
\* prompt; NoneId when the pass took neither.
ManualIdAt(i) ==
    IF branches[i] = "manual" THEN extract_tidal_track_id(Strip(manualTyped[i])) ELSE NoneId
ListedIdAt(i) ==
    IF PickAsked(i) /\ InRange(Strip(inputs[i].pick), Len(OptsAt(i)))
    THEN OptsAt(i)[DigitsToInt(Strip(inputs[i].pick))].id
    ELSE NoneId
ManualOrListedIdAt(i) == IF TruthyId(ManualIdAt(i)) THEN ManualIdAt(i) ELSE ListedIdAt(i)

\* The ids a set of passes took, in the order of the passes.
IdsTaken(IdAt(_)) == SelectSeq([i \in 1..Len(branches) |-> IdAt(i)], TruthyId)

\* The loop has ended and the flush after it has run.
Flushed == migPc = "done" \/ (migPc = "raised" /\ migErr = "RuntimeError")

\* The buffer holds the ids taken, none of them was inserted in its own pass,
\* every auto-accepted id was inserted in its own pass, and the buffer is sent
\* in one insert call, the last one, made after the loop.
BufferedAndFlushedOnce(IdAt(_)) ==
    /\ pending_manual_ids = IdsTaken(IdAt)
    /\ \A i \in Processed : TruthyId(IdAt(i)) => InsertsAt(i) = {}
    /\ \A i \in Processed : branches[i] = "auto" => CallsAt(i) = <<<<plan[i].id>>>>
    /\ ~Flushed => InsertsAt(0) = {}
    /\ Flushed =>
         IF pending_manual_ids = <<>> THEN InsertsAt(0) = {}
         ELSE /\ InsertsAt(0) = {Len(insertCalls)}
              /\ insertCalls[Len(insertCalls)].ids = pending_manual_ids

\* C29: in migrate_playlist the ids accepted through manual-id and through
\* list-alternatives are not inserted when they are decided: they are buffered
\* and sent in a single insert call after the last item has been decided,
\* whereas each auto-accepted id is inserted when its item is processed.
C29_ManualAndListedFlushedOnce ==
    mig = "tidal_playlist" => BufferedAndFlushedOnce(ManualOrListedIdAt)

\* What holds, in both Tidal loops: the ids typed at the manual prompt are
\* buffered and flushed in one call after the loop, and the auto-accepted ones
\* are inserted in their own pass.
C29_ManualFlushedOnce ==
    mig \in {"tidal_playlist", "tidal_liked"} => BufferedAndFlushedOnce(ManualIdAt)

\* How many times a collection holds an id.
Occurrences(content, id) == Cardinality({k \in 1..Len(content) : content[k] = id})

\* C30: with avoid_duplicates = True and nobody else changing the destination,
\* migrate_playlist adds no track id to the destination playlist more than
\* once: the playlist, which held every id at most once before the run, holds
\* every id at most once at every point of it, also when several source tracks
\* resolve to the same id, when an auto-accepted id is also entered manually,
\* and when the same id is entered manually for two items.
C30_NoIdAddedTwice ==
    (mig = "tidal_playlist" /\ migAvoid) =>
        \A id \in Range(destPl) : Occurrences(destPl, id) = 1

\* The same id was typed for both items, the flush sent it twice to the
\* library, and the playlist holds it once.
C30_Witness ==
    /\ mig = "tidal_playlist" /\ migAvoid /\ migPc = "done"
    /\ branches = <<"manual", "manual">>
    /\ pending_manual_ids = <<2, 2>>
    /\ insertCalls = <<[at |-> 0, ids |-> <<2, 2>>]>>
    /\ Occurrences(destPl, 2) = 1

\* Two source tracks resolved to the same id and both were auto-accepted.
C30_SameIdResolvedTwice ==
    /\ mig = "tidal_playlist" /\ migAvoid /\ migPc = "done"
    /\ branches = <<"auto", "auto">> /\ plan[1].id = plan[2].id
    /\ Len(insertCalls) = 2 /\ Occurrences(destPl, plan[1].id) = 1

\* The id typed for the first item is the one auto-accepted for the second.
C30_AutoAlsoManual ==
    /\ mig = "tidal_playlist" /\ migAvoid /\ migPc = "done"
    /\ branches = <<"manual", "auto">>
    /\ pending_manual_ids = <<plan[2].id>>
    /\ Len(insertCalls) = 2 /\ Occurrences(destPl, plan[2].id) = 1

-----------------------------------------------------------------------------
(* sync_single_playlist while another actor writes to the same playlists    *)

MaxExternal == 1

\* The steps of a run at which the provider add call for a side is still to
\* come, the id sets having been read.
BeforeCallTo(side) ==
    IF side = "A" THEN {"addA", "callA"} ELSE {"addA", "callA", "addB", "callB"}

\* Another client of the provider adds to the playlist of one account an id
\* the run found missing there, between the run's read of the id sets (lines
\* 100-101) and its provider add call for that account (tidal_library.py:256).
ExternalAdd ==
    /\ Len(external) < MaxExternal
    /\ \E side \in {"A", "B"} :
         /\ syncPc \in BeforeCallTo(side)
         /\ \E id \in SideToAdd(side) \ Range(TracksOf(side, SidePl(side))) :
              /\ lib' = SetTracks(lib, side, SidePl(side),
                                  Append(TracksOf(side, SidePl(side)), id))
              /\ external' = Append(external, [account |-> side, id |-> id, at |-> syncPc])
    /\ UNCHANGED <<apiVars, syncAvoid, syncPc, pl_a, pl_b, ids_a, ids_b, to_add_a, to_add_b,
                   pending, runCalls, libAtStart, runNo, prevReturned, prevCalls,
                   common, visited, runPc, scoreVars, addVars, migVars>>

NextSyncExt == NextSync \/ ExternalAdd

SpecSyncExt == InitSync /\ [][NextSyncExt]_vars

\* The playlist an external add went to holds the id added once.
HeldOnce(e) == Occurrences(TracksOf(e.account, SidePl(e.account)), e.id) = 1

\* C31: with avoid_duplicates = True, an id that another actor adds to a
\* playlist at any point after the run has read that playlist's id set and
\* before the run's provider add call for it is not added a second time by
\* the run: the playlist holds it once.
C31_ExternalAddNotRepeated ==
    syncAvoid => \A k \in 1..Len(external) : HeldOnce(external[k])

\* What holds: an id added by another actor before add_tracks_by_ids re-reads
\* the playlist is dropped by the re-read; only an add that falls between the
\* re-read and the provider call is repeated.
C31_AddBeforeRereadNotRepeated ==
    syncAvoid =>
        \A k \in 1..Len(external) :
            external[k].at # "call" \o external[k].account => HeldOnce(external[k])

-----------------------------------------------------------------------------
(* The manual-id action on numeric input                                    *)

\* The passes of the Tidal loops in which a bare string of digits or a url
\* holding .../track/<digits> was typed at the manual prompt.
NumericManual ==
    {i \in Processed : /\ mig \in {"tidal_playlist", "tidal_liked"}
                       /\ manualTyped[i] # NoneStr
                       /\ (IsBareNumeric(manualTyped[i]) \/ HoldsTrackUrl(manualTyped[i]))}

\* The integer the digits typed denote.
TypedInt(typed) ==
    IF IsBareNumeric(typed) THEN DigitsToInt(Strip(typed))
    ELSE DigitsToInt(TidalUrlDigits(Strip(typed)))

\* The id typed in pass i was parsed to the integer its digits denote and
\* queued, and a run that has ended holds it in the destination.
QueuedAndInserted(i) ==
    /\ branches[i] = "manual"
    /\ extract_tidal_track_id(manualTyped[i]) = TypedInt(manualTyped[i])
    /\ TypedInt(manualTyped[i]) \in Range(pending_manual_ids)
    /\ migPc = "done" => TypedInt(manualTyped[i]) \in Range(destPl)

\* C32: for the manual-id action every input that is a bare string of digits,
\* or a url of the shape .../track/<digits>, yields the integer the digits
\* denote, and that id is queued and is in the destination when the playlist
\* is done; for every digit string.
C32_NumericManualQueuedAndInserted ==
    mig = "tidal_playlist" => \A i \in NumericManual : QueuedAndInserted(i)

\* What holds, in both Tidal loops: so it is for the digit strings that do not
\* denote zero.
C32_NonZeroManualQueuedAndInserted ==
    \A i \in NumericManual : TypedInt(manualTyped[i]) # 0 => QueuedAndInserted(i)

-----------------------------------------------------------------------------
(* The list-alternatives action on a valid selection                        *)

\* The passes in which the number of a listed candidate that has an id was
\* typed, and the provider did not reject the insert.
ValidPicks ==
    {i \in Processed : TruthyId(ListedIdAt(i)) /\ inputs[i].fail = 0}

\* C33: with n candidates listed, selecting k with 1 <= k <= n inserts the id
\* of the k-th candidate into the destination (the playlist in
\* migrate_playlist, the favorites in migrate_liked_songs): after the pass the
\* destination holds it.
C33_ValidPickInserted ==
    mig \in {"tidal_playlist", "tidal_liked"} =>
        \A i \in ValidPicks : ListedIdAt(i) \in Range(destPl)

\* What holds: migrate_liked_songs does so, in the pass itself and with one
\* call of add_favorites_by_ids.
C33_LikedValidPickInserted ==
    mig = "tidal_liked" =>
        \A i \in ValidPicks :
            /\ branches[i] = "listed"
            /\ CallsAt(i) = <<<<ListedIdAt(i)>>>>
            /\ ListedIdAt(i) \in Range(destPl)

-----------------------------------------------------------------------------
(* The searches of the planning loop                                        *)

\* The planning loop of a Tidal migrator is running or has ended normally.
TidalPlanning ==
    mig \in {"tidal_playlist", "tidal_liked"} /\ migPc \in {"plan", "planned"}

\* C34: during planning the resolver is called exactly once per source track,
\* with no retry: when a playlist of n tracks has been planned exactly n
\* provider searches were issued (and as many as tracks resolved while the
\* loop runs), whether or not a search returned candidates.
C34_OneSearchPerTrack ==
    TidalPlanning => searches = tPos /\ sessionSearches = tPos

\* What holds: the loop calls the resolver, and the resolver the client's
\* search_tracks, once per track; the client sends one to four search
\* requests for it, trying the next form of the request when one raises.
C34_OneResolverCallPerTrack ==
    TidalPlanning =>
        /\ searches = tPos /\ Len(plan) = tPos
        /\ sessionSearches >= tPos /\ sessionSearches <= 4 * tPos

-----------------------------------------------------------------------------
(* Which playlists TidalPlaylistsSynchronizer.run reconciles                *)

\* The playlist names of an account after trimming and lower-casing, the
\* empty one left out.
NormNames(account) ==
    {Lower(Strip(OrEmpty(lib[account][i].title))) : i \in 1..Len(lib[account])} \ {""}
InBothAccounts == NormNames("A") \cap NormNames("B")

\* The playlists of an account whose track list the run changed.
ChangedIn(account) ==
    {i \in 1..Len(lib[account]) : lib[account][i].tracks # libAtStart[account][i].tracks}

\* The first playlist of each account with the title holds the same ids.
Reconciled(title) ==
    IdSet("A", GetPlaylistByTitle(lib["A"], title)) = IdSet("B", GetPlaylistByTitle(lib["B"], title))

-----------------------------------------------------------------------------
(* What sync_single_playlist leaves alone                                   *)

OtherAccount(account) == IF account = "A" THEN "B" ELSE "A"

\* Every id held by some playlist of the two accounts.
HeldIn(l) ==
    UNION {UNION {Range(l[account][i].tracks) : i \in 1..Len(l[account])} :
             account \in {"A", "B"}}

\* One step of the synchronizer on one playlist: the tracks it held stay, in
\* their places, and the ids it gains were in the other account's playlist
\* when the run began.
OnlyGains(account, i) ==
    LET old    == lib[account][i].tracks
        new    == lib'[account][i].tracks
        gained == Range(new) \ Range(old)
    IN  /\ lib'[account][i].title = lib[account][i].title
        /\ Len(new) >= Len(old) /\ SubSeq(new, 1, Len(old)) = old
        /\ gained # {} =>
              /\ BothExist /\ i = SidePl(account)
              /\ gained \subseteq StartSet(OtherAccount(account), SidePl(OtherAccount(account)))

\* C36: reconciliation only adds.  In every step of any number of runs each
\* playlist of each account keeps every id it held, an id a playlist gains was
\* held by the other account's playlist at the start of the run, and the ids
\* held by the two accounts together stay the same, so no id outside the
\* union of the two initial sets ever appears.
C36_OnlyAdds ==
    [][/\ \A account \in {"A", "B"} :
             /\ Len(lib'[account]) = Len(lib[account])
             /\ \A i \in 1..Len(lib[account]) : OnlyGains(account, i)
       /\ HeldIn(lib') \subseteq HeldIn(lib)]_vars

\* A second run has returned after a first one that gave each playlist an id
\* of the other.
C36_Witness ==
    /\ runNo = 2 /\ syncPc = "done" /\ BothExist
    /\ Len(prevCalls) = 2
    /\ prevCalls[1].account = "A" /\ prevCalls[2].account = "B"
    /\ IdSet("A", pl_a) = {1, 2} /\ lib = libAtStart

-----------------------------------------------------------------------------
(* One whole migrate_playlist call: the start, the planning loop, the       *)
(* destination, the decision loop and the flush                              *)

MigrateTrackLists ==
    {<<>>, <<SourceTrack>>, <<SourceTrack, [name |-> "Viva La Vida", artists |-> <<>>]>>}

InitMigrate ==
    /\ mig \in {"tidal_playlist", "yt_playlist"}
    /\ migPc = "start"
    /\ PASAR_CANCIONES \in (IF mig = "tidal_playlist" THEN {"", "a", "s"} ELSE {"a"})
    /\ score_threshold = 70 /\ migAvoid = TRUE
    /\ tracks \in MigrateTrackLists
    /\ destExists \in BOOLEAN
    /\ destPl = (IF destExists THEN <<1>> ELSE <<>>)
    /\ MigFresh
    /\ ScoreIdle /\ AddIdle /\ SyncIdle /\ ApiIdle

NextMigrate == NextPlan \/ NextMig

SpecMigrate == InitMigrate /\ [][NextMigrate]_vars

\* The planning loop was left by an exception: the track reached has no
\* planned item.
PlanningAborted == migPc = "raised" /\ Len(plan) < tPos

\* The migration went past its planning loop.
PastPlanning ==
    \/ migPc \in {"decide", "flush"}
    \/ migPc \in {"done", "raised"} /\ branches # <<>>

\* C37: in migrate_playlist of the Tidal migrator the destination playlist is
\* obtained or created exactly once per migrated playlist, after the resolver
\* has been called for every source track and before the first insert call;
\* a run whose planning is aborted has created no destination playlist, and a
\* destination playlist is created even when every item ends skipped.
C37_DestinationOnceAfterPlanning ==
    mig = "tidal_playlist" =>
        /\ \A k \in 1..Len(destGets) :
              destGets[k].resolved = Len(tracks) /\ destGets[k].inserts = 0
        /\ PastPlanning => Len(destGets) = 1 /\ destExists
        /\ ~PastPlanning => destGets = <<>> /\ insertCalls = <<>>
        /\ PlanningAborted => destGets = <<>> /\ destExists = (destPl # <<>>)

\* A playlist of two tracks, none resolved, both skipped: the destination was
\* created after the second search and nothing was inserted.
C37_Witness ==
    /\ mig = "tidal_playlist" /\ migPc = "done"
    /\ branches = <<"skip", "skip">>
    /\ destGets = <<[resolved |-> 2, inserts |-> 0]>>
    /\ searches = 2 /\ insertCalls = <<>> /\ destExists /\ destPl = <<>>

\* What planning that is aborted leaves: the second search failed, no
\* destination was created.
C37_AbortedPlanning ==
    /\ mig = "tidal_playlist" /\ PlanningAborted /\ tPos = 2
    /\ destGets = <<>> /\ ~destExists

\* C38: when the source playlist has no tracks, migrate_playlist (of either
\* migrator) returns without issuing any search, without creating or
\* fetching a destination playlist, and without any insert call or skip-log
\* record.
C38_EmptySourceIsNoOp ==
    (mig \in {"tidal_playlist", "yt_playlist"} /\ Len(tracks) = 0) =>
        /\ migPc \in {"start", "done"} /\ migErr = "none"
        /\ searches = 0 /\ sessionSearches = 0 /\ plan = <<>>
        /\ destGets = <<>> /\ destExists = (destPl # <<>>)
        /\ insertCalls = <<>> /\ migCalls = <<>> /\ pending_manual_ids = <<>>
        /\ skipLog = <<>> /\ logTried = 0

\* migrate_playlist has returned on a source playlist without tracks whose
\* destination does not exist.
C38_Witness ==
    /\ mig \in {"tidal_playlist", "yt_playlist"} /\ Len(tracks) = 0
    /\ migPc = "done" /\ ~destExists /\ destPl = <<>> /\ prompts = <<>>

-----------------------------------------------------------------------------
(* The largest score and the thresholds above it                            *)

\* The sum score_candidate clamps in the call at hand.
RawScoreAtHand ==
    IF IsTidalCand(sCand) THEN TidalRawScore(sTrack, sArtist, sCand)
    ELSE YtRawScore(sTrack, sArtist, sCand)

\* The plan item the scored candidate becomes when it is the best match.
ScoredItem == [id |-> sCand.id, score |-> sResult]

\* The thresholds above the largest sum of the weights.
HighThresholds == 96..100

\* C39: score_candidate never returns more than 95 (Tidal 55 + 20 + 20,
\* YouTube 55 + 20 + 15 + 5), so the upper clamp at 100 never changes a result,
\* and with a score_threshold above 95 no item passes the auto-accept test.
C39_ScoreAtMost95 ==
    sResult # NoneId =>
        /\ sResult <= 95
        /\ Min(100, RawScoreAtHand) = RawScoreAtHand
        /\ \A threshold \in HighThresholds : ~AutoAccept(ScoredItem, threshold)

\* A YouTube candidate earning every weight: title match, artist in the title
\* and in the channel, music category, no penalty word; it is auto-accepted at
\* a threshold of 95.
C39_Witness ==
    /\ ~IsTidalCand(sCand) /\ sResult = 95 /\ RawScoreAtHand = 95
    /\ AutoAccept(ScoredItem, 95)

-----------------------------------------------------------------------------
(* SpotifyUserClient.api_request                                            *)

MaxApiCalls == 2

Response(status, content) == [status |-> status, content |-> content]

\* What the Web API answers to one request: a body that parses, no body, a
\* body that does not parse, and three failing statuses.
ApiResponses ==
    {Response(200, "json"), Response(200, ""), Response(200, "bad"),
     Response(401, "json"), Response(404, "json"), Response(500, "")}

\* What one requests.request call ends with: a response, or an exception.
SendOutcomes == ApiResponses \cup {NoResp}

\* What the token endpoint answers to a refresh: 200 with a payload that has
\* no "refresh_token" key, a new one or a null one; an error status; or no
\* answer at all (requests.post raised, status 0).
TokenReplies ==
    {[status |-> 200, refresh_token |-> r] : r \in {"absent", "new", "null"}}
        \cup {[status |-> 400, refresh_token |-> "absent"],
              [status |-> 0, refresh_token |-> "absent"]}

\* One request the call sent: to the Web API or to the token endpoint, why,
\* and the status that came back.
Sent(to, why, status) == [to |-> to, why |-> why, status |-> status]

\* The token _refresh_token leaves after a 200 reply:
\* refresh_token = payload.get("refresh_token", self._token.refresh_token)
RefreshToken(token, reply) ==
    Token(IF reply.refresh_token = "absent" THEN token.refresh_token
          ELSE reply.refresh_token = "new",
          FALSE)

\* self._refresh_token(); self._save_token()  and then the step `nextPc`:
\* one POST to the token endpoint; anything but a 200 raises, and so does a
\* token file that cannot be written.
RefreshAndSave(why, nextPc) ==
    \E reply \in TokenReplies, saved \in BOOLEAN :
        /\ apiLog' = Append(apiLog, Sent("token", why, reply.status))
        /\ IF reply.status # 200
           THEN /\ apiToken' = apiToken
                /\ apiPc' = "raised"
                /\ apiErr' = (IF reply.status = 0 THEN "RequestException" ELSE "RuntimeError")
           ELSE /\ apiToken' = RefreshToken(apiToken, reply)
                /\ apiPc' = (IF saved THEN nextPc ELSE "raised")
                /\ apiErr' = (IF saved THEN apiErr ELSE "OSError")

\* The ways authenticate() ends: the statuses of its POSTs to the token
\* endpoint, whether it raised, and the token it leaves. It returns with the
\* token of the file, with a refreshed one, or with the one the authorization
\* code was exchanged for (after a refresh that failed, or without one); it
\* raises when no code arrives or the exchange fails.
AuthOutcomes ==
    {[posts |-> p, raised |-> FALSE, token |-> Token(r, FALSE)] :
        p \in {<<>>, <<200>>, <<400, 200>>}, r \in BOOLEAN}
    \cup {[posts |-> p, raised |-> TRUE, token |-> t] :
        p \in {<<>>, <<400>>, <<400, 400>>}, t \in {NoToken, Token(TRUE, TRUE)}}

RECURSIVE AuthPosts(_)
AuthPosts(statuses) ==
    IF Len(statuses) = 0 THEN <<>>
    ELSE <<Sent("token", "authenticate", statuses[1])>> \o AuthPosts(Tail(statuses))

\* self.authenticate() inside _ensure_access_token
Authenticate ==
    \E o \in AuthOutcomes :
        /\ apiLog' = apiLog \o AuthPosts(o.posts)
        /\ apiToken' = o.token
        /\ apiPc' = (IF o.raised THEN "raised" ELSE "send")
        /\ apiErr' = (IF o.raised THEN "RuntimeError" ELSE apiErr)

\* requests.request(...) and then the step `nextPc`
Send(why, nextPc) ==
    \E r \in SendOutcomes :
        /\ apiLog' = Append(apiLog, Sent("api", why, r.status))
        /\ IF r = NoResp
           THEN apiResp' = apiResp /\ apiPc' = "raised" /\ apiErr' = "RequestException"
           ELSE apiResp' = r /\ apiPc' = nextPc /\ apiErr' = apiErr

\* resp.raise_for_status() raises
RaiseForStatus(resp) == resp.status >= 400

InitApi ==
    /\ apiToken \in {NoToken} \cup {Token(r, e) : r \in BOOLEAN, e \in BOOLEAN}
    /\ apiPc = "idle" /\ apiLog = <<>> /\ apiResp = NoResp
    /\ on401 = "none" /\ apiErr = "none" /\ apiCalls = 0
    /\ ScoreIdle /\ AddIdle /\ SyncIdle /\ MigIdle

\* A caller calls api_request; time has passed since the previous call, so a
\* token that was fresh may have expired.
ApiCall ==
    /\ apiPc \in {"idle", "returned", "raised"} /\ apiCalls < MaxApiCalls
    /\ apiCalls' = apiCalls + 1
    /\ apiPc' = "ensure" /\ apiLog' = <<>> /\ apiResp' = NoResp
    /\ on401' = "none" /\ apiErr' = "none"
    /\ \E late \in BOOLEAN :
           apiToken' = IF apiToken.present
                       THEN [apiToken EXCEPT !.expired = @ \/ late]
                       ELSE apiToken
    /\ UNCHANGED <<scoreVars, addVars, syncVars, migVars>>

\* self._ensure_access_token()
ApiEnsure ==
    /\ apiPc = "ensure"
    /\ IF ~apiToken.present
       THEN apiPc' = "raised" /\ apiErr' = "RuntimeError" /\ UNCHANGED <<apiToken, apiLog>>
       ELSE IF ~apiToken.expired
       THEN apiPc' = "send" /\ UNCHANGED <<apiToken, apiLog, apiErr>>
       ELSE IF apiToken.refresh_token
       THEN RefreshAndSave("expired", "send")
       ELSE Authenticate
    /\ UNCHANGED <<apiResp, on401, apiCalls, scoreVars, addVars, syncVars, migVars>>

\* resp = requests.request(...)
ApiSend ==
    /\ apiPc = "send"
    /\ Send("request", "check")
    /\ UNCHANGED <<apiToken, on401, apiCalls, scoreVars, addVars, syncVars, migVars>>

\* if resp.status_code == 401: if self._token and self._token.refresh_token:
\*     self._refresh_token(); self._save_token()
ApiOn401 ==
    /\ apiPc = "check"
    /\ IF apiResp.status = 401 /\ apiToken.present /\ apiToken.refresh_token
       THEN on401' = "refresh" /\ RefreshAndSave("401", "retry")
       ELSE /\ on401' = (IF apiResp.status = 401 THEN "no_refresh_token" ELSE "none")
            /\ apiPc' = "finish"
            /\ UNCHANGED <<apiToken, apiLog, apiErr>>
    /\ UNCHANGED <<apiResp, apiCalls, scoreVars, addVars, syncVars, migVars>>

\* A 401 branch that sends the request again twice.
ApiRetryTwice ==
    /\ apiPc = "retry"
    /\ \E first \in ApiResponses, r \in ApiResponses :
        /\ apiLog' = apiLog \o <<Sent("api", "retry", first.status), Sent("api", "retry", r.status)>>
        /\ apiResp' = r /\ apiPc' = "finish"
    /\ UNCHANGED <<apiToken, on401, apiErr, apiCalls, scoreVars, addVars, syncVars, migVars>>

\* the second requests.request(...) of the 401 branch
ApiRetry ==
    /\ apiPc = "retry"
    /\ Send("retry", "finish")
    /\ UNCHANGED <<apiToken, on401, apiCalls, scoreVars, addVars, syncVars, migVars>>

\* resp.raise_for_status(); return resp.json() if resp.content else {}
ApiFinish ==
    /\ apiPc = "finish"
    /\ IF RaiseForStatus(apiResp) THEN apiPc' = "raised" /\ apiErr' = "HTTPError"
       ELSE IF apiResp.content = "bad" THEN apiPc' = "raised" /\ apiErr' = "ValueError"
       ELSE apiPc' = "returned" /\ apiErr' = apiErr
    /\ UNCHANGED <<apiToken, apiLog, apiResp, on401, apiCalls,
                   scoreVars, addVars, syncVars, migVars>>

\* The steps of a call that is running.
ApiStep == ApiEnsure \/ ApiSend \/ ApiOn401 \/ ApiRetry \/ ApiFinish

NextApi == ApiCall \/ ApiEnsure \/ ApiSend \/ ApiOn401 \/ ApiRetry \/ ApiFinish

\* A call that has started keeps running until it returns or raises.
SpecApi == InitApi /\ [][NextApi]_vars /\ WF_vars(ApiStep)

\* The requests of the call at hand sent to `to` for the reason `why`.
SentFor(to, why) == {k \in 1..Len(apiLog) : apiLog[k].to = to /\ apiLog[k].why = why}

\* The times the call at hand sent its request to the Web API.
ApiSends == Cardinality({k \in 1..Len(apiLog) : apiLog[k].to = "api"})

ApiCallOver == apiPc \in {"returned", "raised"}

\* The refresh of the 401 branch went through: the token endpoint answered
\* 200 and the token was saved.
RefreshedOn401 ==
    /\ \E k \in SentFor("token", "401") : apiLog[k].status = 200
    /\ apiErr # "OSError"

\* C40, as stated: api_request sends at most two HTTP requests per call, and
\* on a 401 response with a refresh token available it refreshes the token
\* once and retries the request once.
C40_AtMostTwoHttpRequests ==
    /\ Len(apiLog) <= 2
    /\ (ApiCallOver /\ on401 = "refresh") =>
           /\ Cardinality(SentFor("token", "401")) = 1
           /\ Cardinality(SentFor("api", "retry")) = 1

\* What holds of the requests of every call.
TwoApiSendsOneRefresh ==
    /\ ApiSends <= 2
    /\ Cardinality(SentFor("api", "retry")) <= 1
    /\ Cardinality(SentFor("token", "401")) <= 1
    /\ on401 # "refresh" =>
           /\ SentFor("token", "401") = {} /\ SentFor("api", "retry") = {}
    /\ (ApiCallOver /\ on401 = "refresh") =>
           /\ Cardinality(SentFor("token", "401")) = 1
           /\ Cardinality(SentFor("api", "retry")) = (IF RefreshedOn401 THEN 1 ELSE 0)
    /\ (ApiCallOver /\ ApiSends = 2 /\ apiLog[Len(apiLog)].status >= 400) =>
           apiPc = "raised" /\ apiErr = "HTTPError"

\* C40: api_request sends its request to the Web API at most twice per call,
\* the POSTs to the token endpoint not counted; on a 401 response with a
\* refresh token available it posts one refresh, and it sends the request again
\* exactly once when that refresh went through and not at all when it did not;
\* a second failing response is raised to the caller and never retried; and a
\* call that has started always ends.
C40_AtMostTwoApiSends ==
    /\ []TwoApiSendsOneRefresh
    /\ (apiPc = "ensure") ~> ApiCallOver

\* A call whose token had expired: refreshed before the request, a 401,
\* refreshed again, the request sent again, a failing response raised: four
\* HTTP requests, two of them to the Web API.
C40_Witness ==
    /\ ApiCallOver /\ on401 = "refresh" /\ ApiSends = 2
    /\ Cardinality(SentFor("token", "expired")) = 1
    /\ Cardinality(SentFor("token", "401")) = 1
    /\ Len(apiLog) = 4 /\ apiLog[4].status = 401
    /\ apiPc = "raised" /\ apiErr = "HTTPError"

=============================================================================
